---- MODULE Spec2Model ----
(***************************************************************************)
(* Proof-of-Fractal sealing and finality core of SeirChain:                *)
(*   seir_chain/crypto/hashing.py        sha256_hash, merkle_root          *)
(*   seir_chain/crypto/key_pair.py       KeyPair (ECDSA)                   *)
(*   seir_chain/data_structures/*.py     Transaction, Triad                *)
(*   seir_chain/consensus/vdf.py         VDF                               *)
(*   seir_chain/consensus/pof.py         PoF                               *)
(*   seir_chain/crypto/bls*.py           signature aggregation             *)
(*                                                                         *)
(* Byte strings and text are sequences of byte values 0..255.  SHA-256 is  *)
(* modelled as a collision-free function: the digest of x is x between two *)
(* bracket bytes, so digests are self-delimiting and the concatenation of  *)
(* two digests determines both.  Where the code reads a digest as a number *)
(* (int.from_bytes) the model takes a deterministic HashBits-bit valuation *)
(* of the digest.                                                          *)
(***************************************************************************)
EXTENDS Integers, Sequences, FiniteSets, TLC

VARIABLES
    vdf,        \* the VDF instance and the last VDF.verify call
    mk,         \* the Merkle-root calls (hashing.merkle_root)
    triad,      \* the Triad header being built, mined and verified
    call,       \* the last Triad operation and its outcome
    puzzle,     \* the PoF instance bound to triad, and its miner's position
    ver,        \* the running / last PoF.verify_solution call
    agg,        \* the last signature / public-key aggregation calls
    bls,        \* the last ProductionBLS key generation and verification calls
    coordinator, \* a two_phase_commit.Coordinator and its participants
    slashing,   \* a SlashingCondition: signed_blocks and the last call
    tm,         \* the SVM TransactionalMemory
    tpc,        \* the cross-shard TwoPhaseCommit
    guard       \* a ReentrancyGuard and the blocks running under it

vars == <<vdf, mk, triad, call, puzzle, ver, agg, bls,
          coordinator, slashing, tm, tpc, guard>>

\* the objects of the chain itself, and the services beside it
chain == <<vdf, mk, triad, call, puzzle, ver, agg, bls>>
services == <<coordinator, slashing, tm, tpc, guard>>

----------------------------------------------------------------------------
(* Bounds of the model *)

HashBits == 6          \* width of the numeric valuation of a digest (256 in the code)
MaxVdfDifficulty == 2  \* VDF iteration counts 1..MaxVdfDifficulty (and 0, rejected)
MaxLeaves == 4         \* Merkle lists of up to MaxLeaves leaves
MaxTxs == 2            \* transactions per Triad
MaxDifficulty == 2     \* PoW difficulty exponents 0..MaxDifficulty (and HashBits: target 0)
MaxNonce == 5          \* the nonce search is followed up to this nonce
MaxSigners == 3        \* committee size for aggregation
MaxCreates == 2        \* create_puzzle calls followed on one PoF instance
MaxBatch == 3          \* signatures handed to one batch_verify call
MaxPresented == 2      \* length of the lists handed to the aggregation functions as they come
MaxDraws == 2          \* passes of the sampling loop of one generate_key_pair call
MaxParticipants == 4   \* participants of one Coordinator
MaxSigned == 3         \* add_signed_block calls on one SlashingCondition
MaxApplied == 2        \* times the operations of cross-shard transactions are applied
MaxSupply == 2         \* total_supply of the SecureContract

----------------------------------------------------------------------------
(* Bytes, text and JSON *)

None == << -1 >>       \* Python's None where Optional[bytes] is held

RECURSIVE Pow2(_)
Pow2(n) == IF n <= 0 THEN 1 ELSE 2 * Pow2(n - 1)

RECURSIVE Concat(_)
\* b"".join(list): the elements of a list of byte strings, in order
Concat(list) == IF list = << >> THEN << >> ELSE Head(list) \o Concat(Tail(list))

\* one hex digit as its ASCII character ('0'..'9', 'a'..'f')
HexChar(n) == IF n < 10 THEN 48 + n ELSE 87 + n

\* bytes.hex(): two lowercase hex characters per byte
Hex(b) == [i \in 1..(2 * Len(b)) |->
              IF i % 2 = 1 THEN HexChar(b[(i + 1) \div 2] \div 16)
                           ELSE HexChar(b[i \div 2] % 16)]

RECURSIVE Dec(_)
\* json.dumps of an int: a minus sign for a negative one, its decimal digits
Dec(n) == IF n < 0 THEN <<45>> \o Dec(0 - n)
          ELSE IF n < 10 THEN <<48 + n>>
          ELSE Dec(n \div 10) \o <<48 + (n % 10)>>

JsonNull == <<110, 117, 108, 108>>          \* null
JsonStr(s) == <<34>> \o s \o <<34>>          \* "s" (the model's text needs no escapes)
JsonKey(k) == <<34>> \o k \o <<34, 58, 32>>  \* "k":

RECURSIVE JsonMembers(_)
JsonMembers(kvs) ==
    IF kvs = << >> THEN << >>
    ELSE JsonKey(Head(kvs)[1]) \o Head(kvs)[2]
         \o (IF Len(kvs) > 1 THEN <<44, 32>> ELSE << >>)
         \o JsonMembers(Tail(kvs))

\* json.dumps(dict, sort_keys=True).encode('utf-8'); kvs lists the members in
\* sorted key order as <<key text, rendered value>>
JsonDumps(kvs) == <<123>> \o JsonMembers(kvs) \o <<125>>

\* key names are abbreviated to their initials; the abbreviations keep the
\* alphabetical order of the full names
K_amount == <<97>>
K_difficulty == <<100>>
K_fee == <<102, 101>>
K_from_address == <<102, 114>>
K_height == <<104>>
K_miner_address == <<109>>
K_nonce == <<110>>
K_parent_hash == <<112, 97>>
K_public_key == <<112, 117>>
K_signature == <<115>>
K_timestamp == <<116, 105>>
K_to_address == <<116, 111>>
K_tx_merkle_root == <<116, 120>>

----------------------------------------------------------------------------
(* seir_chain/crypto/hashing.py *)

\* hashlib.sha256(data).digest(), collision-free
sha256_hash(data) == <<254>> \o data \o <<255>>

RECURSIVE digest_value(_, _, _)
digest_value(b, lo, hi) ==
    IF lo > hi THEN 0
    ELSE IF lo = hi THEN (b[lo] + 1) % Pow2(HashBits)
    ELSE LET mid == (lo + hi) \div 2
         IN  (5 * digest_value(b, lo, mid) + 3 * digest_value(b, mid + 1, hi) + 1)
                 % Pow2(HashBits)

\* int.from_bytes(digest, 'big'): the digest read as an unsigned number of
\* HashBits bits
int_from_bytes(digest) == digest_value(digest, 1, Len(digest))

\* next_level with every item paired with itself (right = left)
next_level_DupLeft(items) ==
    [j \in 1..((Len(items) + 1) \div 2) |->
        sha256_hash(items[2 * j - 1] \o items[2 * j - 1])]

\* one level of the tree: adjacent items paired left to right, an odd last
\* item paired with itself
next_level(items) ==
    [j \in 1..((Len(items) + 1) \div 2) |->
        LET left == items[2 * j - 1]
            right == IF 2 * j <= Len(items) THEN items[2 * j] ELSE left
        IN  sha256_hash(left \o right)]

RECURSIVE merkle_root_SingleUnhashed(_)
\* merkle_root returning a single item as it is
merkle_root_SingleUnhashed(items) ==
    IF items = << >> THEN sha256_hash(<< >>)
    ELSE IF Len(items) = 1 THEN items[1]
    ELSE merkle_root_SingleUnhashed(next_level(items))

RECURSIVE merkle_root(_)
merkle_root(items) ==
    IF items = << >> THEN sha256_hash(<< >>)
    ELSE IF Len(items) = 1 THEN sha256_hash(items[1])
    ELSE merkle_root(next_level(items))

\* MerkleTree._calculate_root
MerkleTree_calculate_root(items) ==
    IF items = << >> THEN sha256_hash(<< >>) ELSE merkle_root(items)

----------------------------------------------------------------------------
(* seir_chain/consensus/vdf.py *)

RECURSIVE hash_chain(_, _)
\* for _ in range(n): current_hash = sha256(current_hash)
hash_chain(challenge, n) ==
    IF n <= 0 THEN challenge ELSE sha256_hash(hash_chain(challenge, n - 1))

\* VDF.compute running one iteration short (range(difficulty - 1))
VDF_compute_OffByOne(challenge, difficulty) ==
    LET current_hash == hash_chain(challenge, difficulty - 1)
    IN  <<current_hash, current_hash>>

\* VDF.compute hashing the challenge once, whatever the difficulty
VDF_compute_HashOnce(challenge, difficulty) ==
    <<sha256_hash(challenge), sha256_hash(challenge)>>

\* VDF.compute: <<output, proof>>
VDF_compute(challenge, difficulty) ==
    LET current_hash == hash_chain(challenge, difficulty)
    IN  <<current_hash, current_hash>>

\* VDF.verify comparing the recomputed chain with the proof only
VDF_verify_ProofOnly(challenge, difficulty, output, proof) ==
    hash_chain(challenge, difficulty) = proof

\* VDF.verify
VDF_verify(challenge, difficulty, output, proof) ==
    IF output # proof THEN FALSE
    ELSE hash_chain(challenge, difficulty) = output

----------------------------------------------------------------------------
(* seir_chain/crypto/key_pair.py: ECDSA key pairs.  A private key is a small *)
(* number; a signature is a pair <<r, s>> with r the signer's random nonce   *)
(* and s bound to the key, r and the SHA-256 digest of the message.          *)

PrivateKeys == 1..2

\* KeyPair.public_key: the compressed point (prefix byte, x coordinate)
KeyPair_public_key(private_key) == <<2, private_key>>

ecdsa_s(private_key, r, message) ==
    (7 * private_key + 3 * r + int_from_bytes(sha256_hash(message))) % 256

\* KeyPair.sign, with the random nonce r made explicit
KeyPair_sign(private_key, message, r) == <<r, ecdsa_s(private_key, r, message)>>

\* KeyPair.verify: False for a malformed key or signature (the caught errors)
KeyPair_verify(public_key, signature, message) ==
    /\ Len(public_key) = 2
    /\ public_key[1] = 2
    /\ public_key[2] \in PrivateKeys
    /\ Len(signature) = 2
    /\ signature[2] = ecdsa_s(public_key[2], signature[1], message)

\* s[-n:]
LastBytes(s, n) == IF Len(s) <= n THEN s ELSE SubSeq(s, Len(s) - n + 1, Len(s))

\* 'WAC' + sha256(public_key).digest()[-20:].hex()
address_of(public_key) == <<87, 65, 67>> \o Hex(LastBytes(sha256_hash(public_key), 20))

\* KeyPair.get_address
KeyPair_get_address(private_key) == address_of(KeyPair_public_key(private_key))

----------------------------------------------------------------------------
(* seir_chain/data_structures/transaction.py *)

COINBASE == <<67, 79, 73, 78, 66, 65, 83, 69>>

TxFields == {"from_address", "to_address", "amount", "fee", "nonce",
             "timestamp", "signature", "public_key"}

\* Transaction.__init__ (timestamp is int(time.time()) at construction)
Transaction(from_address, to_address, amount, fee, nonce, now, signature, public_key) ==
    [from_address |-> from_address, to_address |-> to_address, amount |-> amount,
     fee |-> fee, nonce |-> nonce, timestamp |-> now,
     signature |-> signature, public_key |-> public_key]

\* Python truth value of an Optional[bytes]: None and b'' are false
Truthy(b) == b # None /\ b # << >>

\* x.hex() if x else None, as json.dumps renders it
HexOrNull(b) == IF Truthy(b) THEN JsonStr(Hex(b)) ELSE JsonNull

\* Transaction.to_dict, rendered by json.dumps(..., sort_keys=True)
Transaction_to_dict(tx, with_signature) ==
    <<  <<K_amount, Dec(tx.amount)>>,
        <<K_fee, Dec(tx.fee)>>,
        <<K_from_address, JsonStr(tx.from_address)>>,
        <<K_nonce, Dec(tx.nonce)>> >>
    \o (IF with_signature
        THEN << <<K_public_key, HexOrNull(tx.public_key)>>,
                <<K_signature, HexOrNull(tx.signature)>> >>
        ELSE << >>)
    \o << <<K_timestamp, Dec(tx.timestamp)>>,
          <<K_to_address, JsonStr(tx.to_address)>> >>

\* Transaction.payload
Transaction_payload(tx) == JsonDumps(Transaction_to_dict(tx, FALSE))

\* Transaction.sign (the caller's key must own from_address)
Transaction_sign(tx, private_key, r) ==
    [tx EXCEPT !.public_key = KeyPair_public_key(private_key),
               !.signature = KeyPair_sign(private_key, Transaction_payload(tx), r)]

\* the signature check of Transaction.is_valid alone: the signature is present
\* and validates against the claimed sender
SignatureValidates(tx) ==
    IF ~Truthy(tx.signature) \/ ~Truthy(tx.public_key) THEN FALSE
    ELSE IF address_of(tx.public_key) # tx.from_address THEN FALSE
    ELSE KeyPair_verify(tx.public_key, tx.signature, Transaction_payload(tx))

\* Transaction.is_valid without the comparison of the key's address with
\* from_address
Transaction_is_valid_NoAddressCheck(tx) ==
    IF tx.from_address = COINBASE THEN TRUE
    ELSE IF ~Truthy(tx.signature) \/ ~Truthy(tx.public_key) THEN FALSE
    ELSE KeyPair_verify(tx.public_key, tx.signature, Transaction_payload(tx))

\* Transaction.is_valid
Transaction_is_valid(tx) ==
    IF tx.from_address = COINBASE THEN TRUE
    ELSE IF ~Truthy(tx.signature) \/ ~Truthy(tx.public_key) THEN FALSE
    ELSE IF address_of(tx.public_key) # tx.from_address THEN FALSE
    ELSE KeyPair_verify(tx.public_key, tx.signature, Transaction_payload(tx))

\* Transaction.get_hash over the signed payload only
Transaction_get_hash_PayloadOnly(tx) == sha256_hash(Transaction_payload(tx))

\* Transaction.get_hash
Transaction_get_hash(tx) == sha256_hash(JsonDumps(Transaction_to_dict(tx, TRUE)))

----------------------------------------------------------------------------
(* seir_chain/data_structures/triad.py *)

\* Triad.__init__ (timestamp is int(time.time()) at construction)
Triad(parent_hash, miner_address, height, difficulty, now) ==
    [parent_hash |-> parent_hash, height |-> height, timestamp |-> now,
     nonce |-> 0, miner_address |-> miner_address, difficulty |-> difficulty,
     transactions |-> << >>, tx_merkle_root |-> << >>, child_hashes |-> << >>,
     aggregated_proof |-> << >>, committee_pub_key |-> << >>]

\* Triad.to_dict without the nonce
Triad_to_dict_NoNonce(t) ==
    <<  <<K_difficulty, Dec(t.difficulty)>>,
        <<K_height, Dec(t.height)>>,
        <<K_miner_address, JsonStr(t.miner_address)>>,
        <<K_parent_hash, JsonStr(Hex(t.parent_hash))>>,
        <<K_timestamp, Dec(t.timestamp)>>,
        <<K_tx_merkle_root, JsonStr(Hex(t.tx_merkle_root))>> >>

\* Triad.to_dict(for_hashing=True), rendered by json.dumps(..., sort_keys=True)
Triad_to_dict(t) ==
    <<  <<K_difficulty, Dec(t.difficulty)>>,
        <<K_height, Dec(t.height)>>,
        <<K_miner_address, JsonStr(t.miner_address)>>,
        <<K_nonce, Dec(t.nonce)>>,
        <<K_parent_hash, JsonStr(Hex(t.parent_hash))>>,
        <<K_timestamp, Dec(t.timestamp)>>,
        <<K_tx_merkle_root, JsonStr(Hex(t.tx_merkle_root))>> >>

tx_hashes(t) == [i \in 1..Len(t.transactions) |-> Transaction_get_hash(t.transactions[i])]

\* calculate_merkle_root computing the root only while none is stored
Triad_calculate_merkle_root_OnceOnly(t) ==
    IF t.tx_merkle_root # << >> THEN t
    ELSE IF t.transactions = << >>
    THEN [t EXCEPT !.tx_merkle_root = sha256_hash(<< >>)]
    ELSE [t EXCEPT !.tx_merkle_root = merkle_root(tx_hashes(t))]

\* Triad.calculate_merkle_root: the header after the call
Triad_calculate_merkle_root(t) ==
    IF t.transactions = << >>
    THEN [t EXCEPT !.tx_merkle_root = sha256_hash(<< >>)]
    ELSE [t EXCEPT !.tx_merkle_root = merkle_root(tx_hashes(t))]

\* Triad.get_header_hash: the value returned; the header is left as
\* Triad_calculate_merkle_root(t)
Triad_get_header_hash(t) ==
    sha256_hash(JsonDumps(Triad_to_dict(Triad_calculate_merkle_root(t))))

----------------------------------------------------------------------------
(* seir_chain/crypto/bls_production.py over py_ecc's G2ProofOfPossession.   *)
(* The pairing groups are modelled by the integers modulo CurveOrder: a    *)
(* point is its multiple of the generator, point addition is addition, a   *)
(* public key is sk * G1, a signature sk * H(m), and the pairing of a and  *)
(* b is a * b.  A point is serialised big-endian to its canonical length.  *)

CurveOrder == 13           \* ProductionBLS.curve_order, scaled down
SignatureLength == 96      \* len(sig) != 96
PublicKeyLength == 48      \* len(pk) != 48
SecretKeyLength == 32      \* secret_key_int.to_bytes(32, 'big')
RandomRange == 32          \* os.urandom(32): 2^256 values, scaled down with the order

\* a point in its canonical n-byte form, and back
PointToBytes(point, n) == [i \in 1..n |-> IF i = n THEN point ELSE 0]
BytesToPoint(b) == b[Len(b)] % CurveOrder

\* the message hashed to a point other than the identity
HashToPoint(message) == 1 + (int_from_bytes(sha256_hash(message)) % (CurveOrder - 1))

\* bls_pop.SkToPk
SkToPk(secret_key) == PointToBytes(secret_key % CurveOrder, PublicKeyLength)

\* bls_pop.Sign
Sign(secret_key, message) ==
    PointToBytes((secret_key * HashToPoint(message)) % CurveOrder, SignatureLength)

RECURSIVE AddPoints(_)
\* the points of a list of serialised points added up in list order
AddPoints(list) ==
    IF list = << >> THEN 0
    ELSE (BytesToPoint(Head(list)) + AddPoints(Tail(list))) % CurveOrder

\* bls_pop.Aggregate / bls_pop._AggregatePKs
Aggregate(signatures) == PointToBytes(AddPoints(signatures), SignatureLength)
AggregatePKs(public_keys) == PointToBytes(AddPoints(public_keys), PublicKeyLength)

\* aggregate_signatures without the loop that checks the lengths
aggregate_signatures_NoLengthCheck(signatures) ==
    IF signatures = << >>
    THEN [ok |-> FALSE, error |-> "ValueError: empty", value |-> << >>]
    ELSE [ok |-> TRUE, error |-> "", value |-> Aggregate(signatures)]

\* ProductionBLS.aggregate_signatures
aggregate_signatures(signatures) ==
    IF signatures = << >>
    THEN [ok |-> FALSE, error |-> "ValueError: empty", value |-> << >>]
    ELSE IF \E i \in 1..Len(signatures) : Len(signatures[i]) # SignatureLength
    THEN [ok |-> FALSE, error |-> "ValueError: length", value |-> << >>]
    ELSE [ok |-> TRUE, error |-> "", value |-> Aggregate(signatures)]

\* ProductionBLS.aggregate_public_keys
aggregate_public_keys(public_keys) ==
    IF public_keys = << >>
    THEN [ok |-> FALSE, error |-> "ValueError: empty", value |-> << >>]
    ELSE IF \E i \in 1..Len(public_keys) : Len(public_keys[i]) # PublicKeyLength
    THEN [ok |-> FALSE, error |-> "ValueError: length", value |-> << >>]
    ELSE [ok |-> TRUE, error |-> "", value |-> AggregatePKs(public_keys)]

\* b is the canonical n-byte form of a point of the group
IsPoint(b, n) ==
    /\ b # None
    /\ Len(b) = n
    /\ \A i \in 1..(n - 1) : b[i] = 0
    /\ b[n] < CurveOrder

\* bls_pop.KeyValidate: a point of the group other than the identity
KeyValidate(public_key) ==
    IsPoint(public_key, PublicKeyLength) /\ BytesToPoint(public_key) # 0

RECURSIVE PairingSum(_, _)
\* the pairings e(H(m_i), pk_i) multiplied up, in the exponent
PairingSum(public_keys, messages) ==
    IF public_keys = << >> THEN 0
    ELSE (BytesToPoint(Head(public_keys)) * HashToPoint(Head(messages))
          + PairingSum(Tail(public_keys), Tail(messages))) % CurveOrder

\* bls_pop.AggregateVerify: False for what its own validation rejects, an
\* exception for an argument that is no byte string
bls_pop_AggregateVerify(public_keys, messages, signature) ==
    IF \/ signature = None
       \/ \E i \in 1..Len(public_keys) : public_keys[i] = None
       \/ \E i \in 1..Len(messages) : messages[i] = None
    THEN [ok |-> FALSE, error |-> "TypeError", value |-> FALSE]
    ELSE [ok |-> TRUE, error |-> "",
          value |-> /\ Len(public_keys) = Len(messages)
                    /\ Len(public_keys) >= 1
                    /\ IsPoint(signature, SignatureLength)
                    /\ \A i \in 1..Len(public_keys) : KeyValidate(public_keys[i])
                    /\ PairingSum(public_keys, messages) = BytesToPoint(signature)]

\* bls_pop.Verify
bls_pop_Verify(public_key, message, signature) ==
    bls_pop_AggregateVerify(<<public_key>>, <<message>>, signature)

\* verify_aggregated_signature answering as bls.bls_verify_aggregated does:
\* True for any non-empty arguments
verify_aggregated_signature_NoPairing(aggregated_signature, aggregated_public_key, message) ==
    [ok |-> TRUE, error |-> "",
     value |-> /\ Truthy(aggregated_signature) /\ Truthy(aggregated_public_key)
               /\ Truthy(message)]

\* ProductionBLS.verify_aggregated_signature: any exception becomes False
verify_aggregated_signature(aggregated_signature, aggregated_public_key, message) ==
    LET r == bls_pop_AggregateVerify(<<aggregated_public_key>>, <<message>>,
                                     aggregated_signature)
    IN  [ok |-> TRUE, error |-> "", value |-> IF r.ok THEN r.value ELSE FALSE]

\* BLSKeyPair(secret_key, public_key, key_id)
BLSKeyPair(secret_key, public_key, key_id) ==
    [secret_key |-> secret_key, public_key |-> public_key, key_id |-> key_id]

\* the range test of the sampling loop
key_in_range(secret_key_int) == 0 < secret_key_int /\ secret_key_int < CurveOrder

RECURSIVE generate_key_pair(_, _)
\* ProductionBLS.generate_key_pair, os.urandom answering draws[1], draws[2],
\* ... as integers: the key pair returned and the number of draws taken, or
\* returned = FALSE while the loop is still asking for more
generate_key_pair(draws, key_id) ==
    IF draws = << >>
    THEN [returned |-> FALSE, used |-> 0, value |-> BLSKeyPair(<< >>, << >>, key_id)]
    ELSE LET secret_key_int == Head(draws) % CurveOrder
         IN  IF key_in_range(secret_key_int)
             THEN [returned |-> TRUE, used |-> 1,
                   value |-> BLSKeyPair(PointToBytes(secret_key_int, SecretKeyLength),
                                        SkToPk(secret_key_int), key_id)]
             ELSE LET r == generate_key_pair(Tail(draws), key_id)
                  IN  [r EXCEPT !.used = @ + 1]

\* a BLSSignature object
BLSSignature(signature, public_key, message) ==
    [signature |-> signature, public_key |-> public_key, message |-> message]

\* an object that is no BLSSignature: it has none of its attributes
NotASignature == [object |-> "bytes"]

\* ProductionBLS.verify_signature: any exception becomes False, also the
\* AttributeError of an argument without the attributes of a BLSSignature
verify_signature(signature) ==
    IF ~({"signature", "public_key", "message"} \subseteq DOMAIN signature)
    THEN [ok |-> TRUE, error |-> "", value |-> FALSE]
    ELSE LET r == bls_pop_Verify(signature.public_key, signature.message,
                                 signature.signature)
         IN  [ok |-> TRUE, error |-> "", value |-> IF r.ok THEN r.value ELSE FALSE]

\* results of batch_verify before the loop (verification_time_ms, a
\* wall-clock measurement, is left out)
batch_results(signatures) ==
    [ok |-> TRUE, error |-> "", total_signatures |-> Len(signatures),
     valid_signatures |-> 0, invalid_signatures |-> 0, invalid_indices |-> << >>]

RECURSIVE batch_loop_StopAtInvalid(_, _, _)
\* the loop of batch_verify leaving at the first invalid signature
batch_loop_StopAtInvalid(signatures, i, results) ==
    IF i >= Len(signatures) THEN results
    ELSE LET r == verify_signature(signatures[i + 1])
         IN  IF ~r.ok THEN [results EXCEPT !.ok = FALSE, !.error = r.error]
             ELSE IF r.value
             THEN batch_loop_StopAtInvalid(signatures, i + 1,
                      [results EXCEPT !.valid_signatures = @ + 1])
             ELSE [results EXCEPT !.invalid_signatures = @ + 1,
                                  !.invalid_indices = Append(@, i)]

RECURSIVE batch_loop(_, _, _)
\* for i, sig in enumerate(signatures), from index i on
batch_loop(signatures, i, results) ==
    IF i >= Len(signatures) THEN results
    ELSE LET r == verify_signature(signatures[i + 1])
         IN  IF ~r.ok THEN [results EXCEPT !.ok = FALSE, !.error = r.error]
             ELSE IF r.value
             THEN batch_loop(signatures, i + 1,
                      [results EXCEPT !.valid_signatures = @ + 1])
             ELSE batch_loop(signatures, i + 1,
                      [results EXCEPT !.invalid_signatures = @ + 1,
                                      !.invalid_indices = Append(@, i)])

\* ProductionBLS.batch_verify
batch_verify(signatures) == batch_loop(signatures, 0, batch_results(signatures))

----------------------------------------------------------------------------
(* seir_chain/crypto/bls.py: the simulated aggregation *)

\* a < b for Python bytes: lexicographic, a proper prefix first
BytesLess(a, b) ==
    LET n == IF Len(a) < Len(b) THEN Len(a) ELSE Len(b)
        differ == {i \in 1..n : a[i] # b[i]}
    IN  IF differ = {} THEN Len(a) < Len(b)
        ELSE LET k == CHOOSE i \in differ : \A j \in differ : i <= j
             IN  a[k] < b[k]

RECURSIVE Insert(_, _)
Insert(x, sorted_list) ==
    IF sorted_list = << >> THEN <<x>>
    ELSE IF BytesLess(x, Head(sorted_list)) THEN <<x>> \o sorted_list
    ELSE <<Head(sorted_list)>> \o Insert(x, Tail(sorted_list))

RECURSIVE sorted(_)
\* sorted(list)
sorted(list) == IF list = << >> THEN << >> ELSE Insert(Head(list), sorted(Tail(list)))

\* bls_aggregate_signatures hashing the signatures in the order given
bls_aggregate_signatures_Unsorted(signatures) ==
    IF signatures = << >> THEN << >> ELSE sha256_hash(Concat(signatures))

\* bls_aggregate_signatures: SHA-256 over the sorted signatures
bls_aggregate_signatures(signatures) ==
    IF signatures = << >> THEN << >> ELSE sha256_hash(Concat(sorted(signatures)))

\* bls_aggregate_public_keys: SHA-256 over the sorted keys
bls_aggregate_public_keys(public_keys) ==
    IF public_keys = << >> THEN << >> ELSE sha256_hash(Concat(sorted(public_keys)))

----------------------------------------------------------------------------
(* Idle values of the state *)

agg0 == [state |-> "none", signers |-> << >>, signatures |-> << >>,
         public_keys |-> << >>, order |-> << >>,
         agg_sig |-> << >>, agg_pk |-> << >>, sim_sig |-> << >>, sim_pk |-> << >>,
         p_agg_sig |-> << >>, p_agg_pk |-> << >>, p_sim_sig |-> << >>,
         p_sim_pk |-> << >>]

vdf0 == [state |-> "none", challenge |-> << >>, difficulty |-> 0,
         asked_difficulty |-> 0, output |-> None, proof |-> None,
         v_challenge |-> << >>, v_difficulty |-> 0, v_output |-> << >>,
         v_proof |-> << >>, result |-> FALSE]

mk0 == [state |-> "none", items |-> << >>, root |-> << >>, tree_root |-> << >>,
        order |-> << >>, permuted |-> << >>, permuted_root |-> << >>,
        other |-> << >>, other_root |-> << >>]

call0 == [op |-> "none", ok |-> TRUE, error |-> "", tx |-> << >>, before |-> << >>,
          hashed |-> FALSE, hash |-> << >>, root |-> << >>,
          prev_hash |-> << >>, prev_root |-> << >>,
          tampered |-> FALSE, changed |-> FALSE, tampered_once |-> FALSE,
          index |-> 0, field |-> "", old |-> << >>, new |-> << >>]

puzzle0 == [pc |-> "unbound", vdf_difficulty |-> 0,
            vdf_output |-> << >>, vdf_proof |-> << >>, created_nonce |-> 0,
            challenge0 |-> << >>, output0 |-> << >>,
            search_started |-> FALSE, nonce |-> 0, solution |-> -1, creates |-> 0,
            asked |-> "none", asked_after_search |-> FALSE, asked_nonce |-> 0,
            last_challenge |-> << >>, last_output |-> << >>]

Verifiers == {1, 2}

verifier0 == [pc |-> "idle", vdf_difficulty |-> 0, vdf_output |-> << >>,
              vdf_proof |-> << >>, nonce_at_call |-> 0, original_nonce |-> 0,
              challenge |-> << >>, result |-> FALSE, exit |-> ""]

ver0 == [v \in Verifiers |-> verifier0]

bls0 == [op |-> "none", ok |-> TRUE, error |-> "", result |-> FALSE,
         message |-> << >>, batch |-> << >>, results |-> batch_results(<< >>),
         draws |-> << >>, keypair |-> BLSKeyPair(<< >>, << >>, << >>)]

----------------------------------------------------------------------------
(* two_phase_commit.py *)

\* what prepare() of a participant does: Participant.prepare sets prepared
\* and returns True; an overriding prepare returns False (the test's
\* FailingParticipant) or raises
PrepareKinds == {"True", "False", "raise"}

\* Participant.__init__, with the prepare() it has
Participant(kind) ==
    [kind |-> kind, prepared |-> FALSE, committed |-> FALSE, aborted |-> FALSE]

\* Participant.prepare: the participant after the call
Participant_prepare(p) ==
    IF p.kind = "True" THEN [p EXCEPT !.prepared = TRUE] ELSE p

\* Participant.commit
Participant_commit(p) ==
    IF p.prepared THEN [p EXCEPT !.committed = TRUE] ELSE p

\* Participant.abort
Participant_abort(p) == [p EXCEPT !.aborted = TRUE]

RECURSIVE prepare_loop(_, _)
\* the loop of phase 1 from participant i on: the participants after it and
\* the number of them appended to prepared_participants, failed when a
\* prepare() returned False or raised
prepare_loop(participants, i) ==
    IF i > Len(participants)
    THEN [participants |-> participants, prepared |-> Len(participants), failed |-> FALSE]
    ELSE IF participants[i].kind # "True"
    THEN [participants |-> participants, prepared |-> i - 1, failed |-> TRUE]
    ELSE prepare_loop([participants EXCEPT ![i] = Participant_prepare(@)], i + 1)

\* Coordinator.commit_transaction / abort_transaction on the first n participants
commit_transaction(participants, n) ==
    [i \in 1..Len(participants) |->
        IF i <= n THEN Participant_commit(participants[i]) ELSE participants[i]]

abort_transaction(participants, n) ==
    [i \in 1..Len(participants) |->
        IF i <= n THEN Participant_abort(participants[i]) ELSE participants[i]]

\* execute_transaction aborting in its except branch the prepared participants only
execute_transaction_AbortPrepared(participants) ==
    LET r == prepare_loop(participants, 1)
    IN  IF r.failed
        THEN [result |-> "Abort",
              participants |-> abort_transaction(r.participants, r.prepared)]
        ELSE [result |-> "Commit",
              participants |-> commit_transaction(r.participants, r.prepared)]

\* Coordinator.execute_transaction: the result and the participants after it
execute_transaction(participants) ==
    LET r == prepare_loop(participants, 1)
    IN  IF r.failed
        THEN [result |-> "Abort",
              participants |-> abort_transaction(r.participants, Len(participants))]
        ELSE IF r.prepared = Len(participants)
        THEN [result |-> "Commit",
              participants |-> commit_transaction(r.participants, r.prepared)]
        ELSE [result |-> "Abort",
              participants |-> abort_transaction(r.participants, r.prepared)]

coordinator0 == [state |-> "none", participants |-> << >>, result |-> ""]

----------------------------------------------------------------------------
(* seirchain/consensus/slashing.py *)

\* a block header as the slashing condition reads it: {"height": .., "hash": ..}
BlockHeader(height, hash) == [height |-> height, hash |-> hash]

\* detect_double_signing comparing the hashes only
detect_double_signing_AnyHeight(signed_blocks, validator_address, block_header) ==
    /\ validator_address \in DOMAIN signed_blocks
    /\ \E i \in 1..Len(signed_blocks[validator_address]) :
          signed_blocks[validator_address][i].hash # block_header.hash

\* SlashingCondition.detect_double_signing
detect_double_signing(signed_blocks, validator_address, block_header) ==
    /\ validator_address \in DOMAIN signed_blocks
    /\ \E i \in 1..Len(signed_blocks[validator_address]) :
          /\ signed_blocks[validator_address][i].height = block_header.height
          /\ signed_blocks[validator_address][i].hash # block_header.hash

\* SlashingCondition.add_signed_block: signed_blocks after the call
add_signed_block(signed_blocks, validator_address, block_header) ==
    LET present == IF validator_address \in DOMAIN signed_blocks
                   THEN signed_blocks
                   ELSE (validator_address :> << >>) @@ signed_blocks
    IN  [present EXCEPT ![validator_address] = Append(@, block_header)]

\* SlashingCondition.__init__: signed_blocks = {}; the calls made so far and
\* the last detect_double_signing call are kept beside it
slashing0 ==
    [signed_blocks |-> << >>, added |-> << >>, op |-> "none",
     validator_address |-> "", block_header |-> BlockHeader(0, ""),
     before |-> << >>, result |-> FALSE]

----------------------------------------------------------------------------
(* seirchain/svm/execution/transactional_memory.py *)

\* TransactionRecord(tx_id, read_set, write_set, state, timestamp, triad_id);
\* the timestamp is read by cleanup_old_transactions only
TransactionRecord(tx_id, read_set, write_set, state, triad_id) ==
    [tx_id |-> tx_id, read_set |-> read_set, write_set |-> write_set,
     state |-> state, triad_id |-> triad_id]

\* the loop of validate_transaction: some other transaction is COMMITTED and
\* its write set meets the write set or the read set of tx_id
has_conflict(transactions, tx_id) ==
    \E other_tx_id \in DOMAIN transactions :
        /\ other_tx_id # tx_id
        /\ transactions[other_tx_id].state = "committed"
        /\ \/ transactions[tx_id].write_set \cap transactions[other_tx_id].write_set # {}
           \/ transactions[tx_id].read_set \cap transactions[other_tx_id].write_set # {}

\* global_state after the writes of commit_transaction
apply_writes(global_state, tx_id, write_set) ==
    [key \in (DOMAIN global_state) \cup write_set |->
        IF key \in write_set THEN <<"modified_by", tx_id>> ELSE global_state[key]]

\* TransactionalMemory.__init__, with the last call and the transactions
\* whose validation found a conflict kept beside it
tm0 ==
    [transactions |-> << >>, global_state |-> << >>, version_counter |-> 0,
     conflicted |-> {}, op |-> "none", tx_id |-> "", result |-> FALSE,
     raised |-> FALSE]

----------------------------------------------------------------------------
(* seirchain/svm/sharding/cross_shard.py *)

\* CrossShardTransaction as begin_cross_shard_transaction builds it; the
\* operations are only printed when applied, the timestamp only read by
\* cleanup_old_transactions
CrossShardTransaction(tx_id, triad_ids) ==
    [tx_id |-> tx_id, triad_ids |-> triad_ids, status |-> "initiated",
     coordinator_triad |-> triad_ids[1],
     participants |-> [i \in 1..Len(triad_ids) |-> FALSE]]

\* prepare_phase: the transaction after it, random.random() > 0.1 having
\* answered prepare_success[i] for the i-th triad
prepare_phase(transaction, prepare_success) ==
    [transaction EXCEPT
        !.participants = prepare_success,
        !.status = IF \A i \in 1..Len(prepare_success) : prepare_success[i]
                   THEN "prepared" ELSE "aborting"]

\* commit_phase on a PREPARED transaction: its value
commit_success(transaction) ==
    \A i \in 1..Len(transaction.triad_ids) : transaction.participants[i]

\* TwoPhaseCommit.__init__, with the last call and the number of times
\* _apply_operations ran for each transaction kept beside it
tpc0 ==
    [transactions |-> << >>, applied |-> << >>, op |-> "none", tx_id |-> "",
     result |-> FALSE]


----------------------------------------------------------------------------
(* seirchain/svm/security/reentrancy_guard.py *)

\* _get_lock: self._locks after it; a threading.Lock is TRUE while it is held
get_lock(locks, contract_address) ==
    IF contract_address \in DOMAIN locks THEN locks
    ELSE (contract_address :> FALSE) @@ locks

\* is_locked
is_locked(call_stack, contract_address) ==
    (IF contract_address \in DOMAIN call_stack
     THEN call_stack[contract_address] ELSE 0) > 0

\* non_reentrant up to its yield: the guard after it and how the entry ended;
\* lock.acquire() on a Lock that is held never returns
non_reentrant_enter(g, contract_address) ==
    LET locks == get_lock(g.locks, contract_address)
    IN  IF is_locked(g.call_stack, contract_address)
        THEN [guard |-> [g EXCEPT !.locks = locks], outcome |-> "ReentrancyError"]
        ELSE IF locks[contract_address]
        THEN [guard |-> [g EXCEPT !.locks = locks], outcome |-> "blocked"]
        ELSE [guard |-> [locks |-> [locks EXCEPT ![contract_address] = TRUE],
                         call_stack |->
                             (contract_address :>
                                 (IF contract_address \in DOMAIN g.call_stack
                                  THEN g.call_stack[contract_address] ELSE 0) + 1)
                             @@ g.call_stack],
              outcome |-> "entered"]

non_reentrant_exit_KeepLock(g, contract_address) ==
    LET count == g.call_stack[contract_address] - 1
    IN  [g EXCEPT !.call_stack =
            IF count <= 0
            THEN [a \in DOMAIN g.call_stack \ {contract_address} |-> g.call_stack[a]]
            ELSE [g.call_stack EXCEPT ![contract_address] = count]]

\* the finally clause of non_reentrant: the guard after it
non_reentrant_exit(g, contract_address) ==
    LET count == g.call_stack[contract_address] - 1
    IN  [locks |-> [g.locks EXCEPT ![contract_address] = FALSE],
         call_stack |->
            IF count <= 0
            THEN [a \in DOMAIN g.call_stack \ {contract_address} |-> g.call_stack[a]]
            ELSE [g.call_stack EXCEPT ![contract_address] = count]]

\* ReentrancyGuard.__init__
ReentrancyGuard == [locks |-> << >>, call_stack |-> << >>]

\* SecureContract("0x456"), with the non_reentrant blocks that are executing
\* (innermost last), the last call and the guard and blocks before it kept
\* beside it
guard0 ==
    [address |-> "0x456", balances |-> << >>, total_supply |-> 0,
     reentrancy_guard |-> ReentrancyGuard, frames |-> << >>,
     op |-> "none", contract_address |-> "", outcome |-> "",
     before |-> [reentrancy_guard |-> ReentrancyGuard, frames |-> << >>]]

----------------------------------------------------------------------------
(* The VDF: construction, compute, verify *)

\* b"parent" hashed (the challenge of a child of "parent"), the empty digest,
\* and a raw byte string
Challenges == {sha256_hash(<<112>>), sha256_hash(<< >>), <<0, 1>>}

\* byte i of b with its lowest bit flipped
FlipBit(b, i) == [b EXCEPT ![i] = IF b[i] % 2 = 0 THEN b[i] + 1 ELSE b[i] - 1]

\* values presented as an output or proof next to the genuine value x
Presented(x, challenge) ==
    {x, challenge, sha256_hash(x), << >>} \cup
    (IF x = None THEN {} ELSE {FlipBit(x, i) : i \in 1..Len(x)})

\* the check of VDF.__init__ letting a difficulty of 0 pass (difficulty < 0)
VDF_init_raises_ZeroPasses(difficulty) == difficulty < 0

\* if difficulty < 1: raise ValueError
VDF_init_raises(difficulty) == difficulty < 1

\* VDF.__init__: ValueError and no instance when difficulty < 1
VDF_init(challenge, difficulty) ==
    /\ vdf.state \in {"none", "error"}
    /\ IF VDF_init_raises(difficulty)
       THEN vdf' = [vdf0 EXCEPT !.state = "error", !.asked_difficulty = difficulty]
       ELSE vdf' = [vdf0 EXCEPT !.state = "constructed", !.challenge = challenge,
                                !.difficulty = difficulty,
                                !.asked_difficulty = difficulty]
    /\ UNCHANGED <<mk, triad, call, puzzle, ver, agg, bls>>

\* VDF.compute on the instance
VDF_Compute ==
    /\ vdf.state = "constructed"
    /\ LET r == VDF_compute(vdf.challenge, vdf.difficulty)
       IN  vdf' = [vdf EXCEPT !.state = "computed", !.output = r[1], !.proof = r[2]]
    /\ UNCHANGED <<mk, triad, call, puzzle, ver, agg, bls>>

\* VDF.verify (static) called with any challenge, difficulty, output and proof
VDF_Verify(challenge, difficulty, output, proof) ==
    /\ vdf.state \in {"computed", "verified"}
    /\ vdf' = [vdf EXCEPT !.state = "verified",
                          !.v_challenge = challenge, !.v_difficulty = difficulty,
                          !.v_output = output, !.v_proof = proof,
                          !.result = VDF_verify(challenge, difficulty, output, proof)]
    /\ UNCHANGED <<mk, triad, call, puzzle, ver, agg, bls>>

----------------------------------------------------------------------------
(* merkle_root over lists of leaf digests *)

Leaves == {sha256_hash(<<1>>), sha256_hash(<<2>>), sha256_hash(<<3>>)}

LeafLists == UNION {[1..n -> Leaves] : n \in 0..MaxLeaves}

\* the orders in which n positions can be taken
Orders(n) == Permutations(1..n)

\* merkle_root(items) and MerkleTree(items).get_root()
Merkle_Root ==
    /\ mk.state = "list"
    /\ mk' = [mk EXCEPT !.state = "rooted", !.root = merkle_root(mk.items),
                         !.tree_root = MerkleTree_calculate_root(mk.items)]
    /\ UNCHANGED <<vdf, triad, call, puzzle, ver, agg, bls>>

\* merkle_root of the same leaves taken in the order p
Merkle_Permuted(p) ==
    /\ mk.state = "rooted"
    /\ LET q == [i \in 1..Len(mk.items) |-> mk.items[p[i]]]
       IN  mk' = [mk EXCEPT !.state = "permuted", !.order = p, !.permuted = q,
                            !.permuted_root = merkle_root(q)]
    /\ UNCHANGED <<vdf, triad, call, puzzle, ver, agg, bls>>

\* merkle_root of another list of leaves, to be held against the first
Merkle_Other(items) ==
    /\ mk.state = "rooted"
    /\ mk' = [mk EXCEPT !.state = "compared", !.other = items,
                         !.other_root = merkle_root(items)]
    /\ UNCHANGED <<vdf, triad, call, puzzle, ver, agg, bls>>

----------------------------------------------------------------------------
(* The Triad header: construction, add_transaction, hashing, and a caller  *)
(* changing a contained transaction                                        *)

Miner == KeyPair_get_address(1)

GenesisParent == <<0, 0>>      \* b'\x00' * 32, shortened

\* the headers a miner constructs; difficulty HashBits gives target 0
TriadInits ==
    {Triad(GenesisParent, Miner, 1, d, 7) : d \in (0..MaxDifficulty) \cup {HashBits}}

Reward == Transaction(COINBASE, Miner, 50, 0, 0, 7, None, None)

Transfer == Transaction(KeyPair_get_address(1), KeyPair_get_address(2), 5, 1, 0, 7, None, None)

\* the transactions offered to add_transaction
TxPool ==
    { Reward,                                   \* miner_script.py: unsigned reward
      Transaction_sign(Transfer, 1, 9),         \* signed by its sender
      Transfer,                                 \* never signed
      [Transaction_sign(Transfer, 1, 9) EXCEPT !.amount = 6],  \* changed after signing
      [Transaction_sign(Transfer, 2, 9) EXCEPT                 \* signed by another key,
            !.public_key = KeyPair_public_key(1)],             \*   sender's key attached
      Transaction_sign(Transfer, 2, 9) }        \* another key's signature and key

\* the transactions a miner offers to the header it mines
MinerPool == {Reward, Transfer}

\* Triad.add_transaction
Triad_add_transaction(t, tx) ==
    IF Transaction_is_valid(tx)
    THEN [ok |-> TRUE, error |-> "", triad |-> [t EXCEPT !.transactions = Append(@, tx)]]
    ELSE [ok |-> FALSE, error |-> "ValueError", triad |-> t]

AddTransaction(tx) ==
    /\ Len(triad.transactions) < MaxTxs
    /\ LET r == Triad_add_transaction(triad, tx)
       IN  /\ triad' = r.triad
           /\ call' = [call EXCEPT !.op = "add_transaction", !.ok = r.ok,
                                   !.error = r.error, !.tx = tx, !.before = triad]

\* Triad.calculate_merkle_root
CalculateMerkleRoot ==
    /\ triad' = Triad_calculate_merkle_root(triad)
    /\ call' = [call EXCEPT !.op = "calculate_merkle_root", !.ok = TRUE, !.error = "",
                            !.before = triad]

\* Triad.get_header_hash: sets tx_merkle_root and returns the digest
GetHeaderHash ==
    /\ triad' = Triad_calculate_merkle_root(triad)
    /\ call' = [call EXCEPT !.op = "get_header_hash", !.ok = TRUE, !.error = "",
                            !.before = triad,
                            !.hashed = TRUE, !.hash = Triad_get_header_hash(triad),
                            !.root = triad'.tx_merkle_root,
                            !.prev_hash = call.hash, !.prev_root = call.root,
                            !.changed = call.tampered, !.tampered = FALSE]

\* the values a caller may write into a field of a transaction
FieldValues(field) ==
    CASE field \in {"from_address", "to_address"} ->
            {COINBASE, KeyPair_get_address(1), KeyPair_get_address(2)}
      [] field \in {"amount", "fee", "nonce", "timestamp"} -> {0, 5}
      [] field = "signature" -> {None, << >>, <<9, 9>>}
      [] field = "public_key" -> {None, << >>, KeyPair_public_key(1)}

\* a caller assigns triad.transactions[i].<field> = value, a value other than
\* the field's current one, right after a header hash was computed; one such
\* change is followed in a run, and no transaction is added after it
TamperTransaction(i, field, value) ==
    /\ call.op = "get_header_hash" /\ ~call.tampered_once
    /\ i \in 1..Len(triad.transactions)
    /\ value # triad.transactions[i][field]
    /\ triad' = [triad EXCEPT !.transactions[i][field] = value]
    /\ call' = [call EXCEPT !.op = "tamper", !.ok = TRUE, !.error = "",
                            !.before = triad, !.tampered = TRUE,
                            !.tampered_once = TRUE, !.index = i,
                            !.field = field, !.old = triad.transactions[i][field],
                            !.new = value]

\* the header fields to_dict(for_hashing=True) writes, and the other ones
CanonicalFields ==
    {"parent_hash", "height", "timestamp", "nonce", "miner_address", "difficulty"}

OtherFields == {"aggregated_proof", "committee_pub_key", "child_hashes"}

\* the values a caller may write into a field of the header
HeaderFieldValues(field) ==
    CASE field = "parent_hash" -> {<<0, 1>>}
      [] field = "height" -> {2}
      [] field = "timestamp" -> {8}
      [] field = "nonce" -> {1, 10}
      [] field = "miner_address" -> {KeyPair_get_address(2)}
      [] field = "difficulty" -> {1}
      [] field = "aggregated_proof" -> {<<7>>, <<7, 7>>}
      [] field = "committee_pub_key" -> {<<8>>}
      [] field = "child_hashes" -> {<<sha256_hash(<<1>>)>>}

\* triad.<field> = value, a value other than the current one, right after a
\* header hash was computed; one such assignment is followed in a run
AssignHeaderField(field, value) ==
    /\ call.op = "get_header_hash" /\ ~call.tampered_once
    /\ value # triad[field]
    /\ triad' = [triad EXCEPT ![field] = value]
    /\ call' = [call EXCEPT !.op = "assign", !.ok = TRUE, !.error = "",
                            !.before = triad, !.tampered = TRUE,
                            !.tampered_once = TRUE, !.index = 0,
                            !.field = field, !.old = triad[field], !.new = value]

----------------------------------------------------------------------------
(* seir_chain/consensus/pof.py *)

\* PoF.get_puzzle_challenge: the value returned
PoF_get_puzzle_challenge(t) == Triad_get_header_hash(t)

\* target = (2**256 - 1) >> difficulty, in HashBits bits
pow_target(difficulty) == (Pow2(HashBits) - 1) \div Pow2(difficulty)

\* target >> triad.difficulty raises ValueError (negative shift count)
shift_raises(difficulty) == difficulty < 0

\* the final hash taken over the VDF output followed by the header hash
puzzle_hash_OutputFirst(header_hash, vdf_output) == sha256_hash(vdf_output \o header_hash)

\* final_hash = sha256_hash(header_hash + vdf_output)
puzzle_hash(header_hash, vdf_output) == sha256_hash(header_hash \o vdf_output)

\* int.from_bytes(final_hash, 'big') < target
meets_target(final_hash, target) == int_from_bytes(final_hash) < target

\* PoF.__init__(triad, vdf_difficulty)
PoF_init(vdf_difficulty) ==
    /\ puzzle.pc = "unbound"
    /\ puzzle' = [puzzle EXCEPT !.pc = "bound", !.vdf_difficulty = vdf_difficulty]
    /\ call' = call0
    /\ UNCHANGED triad

NoVerifierRunning == \A v \in Verifiers : ver[v].pc = "idle"

\* no call is running and no returned value is waiting for its caller
Quiet == NoVerifierRunning /\ puzzle.asked = "none"

\* PoF.get_puzzle_challenge, called at any time after the PoF is bound
GetPuzzleChallenge ==
    /\ puzzle.pc # "unbound" /\ Quiet
    /\ triad' = Triad_calculate_merkle_root(triad)
    /\ puzzle' = [puzzle EXCEPT !.asked = "get_puzzle_challenge",
                                !.asked_after_search = puzzle.search_started,
                                !.asked_nonce = triad.nonce,
                                !.last_challenge = PoF_get_puzzle_challenge(triad)]
    /\ UNCHANGED call

\* PoF.create_puzzle; the VDF constructor raises ValueError for a difficulty < 1
CreatePuzzle ==
    /\ puzzle.pc \in {"bound", "created", "solved", "exhausted"} /\ Quiet
    /\ puzzle.creates < MaxCreates
    /\ triad' = Triad_calculate_merkle_root(triad)
    /\ LET challenge == PoF_get_puzzle_challenge(triad)
           r == VDF_compute(challenge, puzzle.vdf_difficulty)
       IN  IF VDF_init_raises(puzzle.vdf_difficulty)
           THEN puzzle' = [puzzle EXCEPT !.pc = "error"]
           ELSE puzzle' = [puzzle EXCEPT
                    !.pc = "created", !.solution = -1,
                    !.vdf_output = r[1], !.vdf_proof = r[2],
                    !.created_nonce = triad.nonce, !.creates = @ + 1,
                    !.challenge0 = IF puzzle.search_started THEN @ ELSE challenge,
                    !.output0 = IF puzzle.search_started THEN @ ELSE r[1],
                    !.asked = "create_puzzle",
                    !.asked_after_search = puzzle.search_started,
                    !.asked_nonce = triad.nonce,
                    !.last_challenge = challenge, !.last_output = r[1]]
    /\ UNCHANGED call

\* the caller of get_puzzle_challenge / create_puzzle takes the returned value
PuzzleReturn ==
    /\ puzzle.asked # "none"
    /\ puzzle' = [puzzle EXCEPT !.asked = "none", !.asked_after_search = FALSE,
                                !.asked_nonce = 0, !.last_challenge = << >>,
                                !.last_output = << >>]
    /\ UNCHANGED <<triad, call>>

\* PoF.solve_puzzle(triad, vdf_output) is entered: nonce = 0
SolveStart ==
    /\ puzzle.pc \in {"created", "solved"} /\ Quiet
    /\ IF shift_raises(triad.difficulty)
       THEN puzzle' = [puzzle EXCEPT !.pc = "raised", !.solution = -1]
       ELSE puzzle' = [puzzle EXCEPT !.pc = "solving", !.search_started = TRUE,
                                     !.nonce = 0, !.solution = -1]
    /\ UNCHANGED <<triad, call>>

\* one iteration of the search loop; the search is followed up to MaxNonce
SolveStep ==
    /\ puzzle.pc = "solving" /\ Quiet
    /\ LET t == [triad EXCEPT !.nonce = puzzle.nonce]
           header_hash == Triad_get_header_hash(t)
           final_hash == puzzle_hash(header_hash, puzzle.vdf_output)
       IN  /\ triad' = Triad_calculate_merkle_root(t)
           /\ IF meets_target(final_hash, pow_target(t.difficulty))
              THEN puzzle' = [puzzle EXCEPT !.pc = "solved", !.solution = puzzle.nonce]
              ELSE IF puzzle.nonce < MaxNonce
                   THEN puzzle' = [puzzle EXCEPT !.nonce = @ + 1]
                   ELSE puzzle' = [puzzle EXCEPT !.pc = "exhausted"]
    /\ UNCHANGED call

\* line 90 left out: the challenge is recomputed at the header's nonce
nonce_for_challenge_Keep(original_nonce) == original_nonce

\* line 90: triad.nonce = 0
nonce_for_challenge(original_nonce) == 0

\* line 92 left out: the nonce stays 0
nonce_after_challenge_NoRestore(original_nonce) == 0

\* line 92: triad.nonce = original_nonce
nonce_after_challenge(original_nonce) == original_nonce

\* what a validator is handed as (vdf_difficulty, vdf_output, vdf_proof): the
\* miner's values, a flipped output, a flipped output with matching proof, a
\* flipped proof, and the unhashed zero-nonce challenge with difficulty 0
VerifyArgs ==
    LET out == puzzle.vdf_output
        c0 == Triad_get_header_hash([triad EXCEPT !.nonce = 0])
    IN  { <<puzzle.vdf_difficulty, out, puzzle.vdf_proof>>,
          <<puzzle.vdf_difficulty, FlipBit(out, 2), puzzle.vdf_proof>>,
          <<puzzle.vdf_difficulty, FlipBit(out, 2), FlipBit(out, 2)>>,
          <<puzzle.vdf_difficulty, out, FlipBit(out, 2)>>,
          <<0, c0, c0>> }

\* PoF.verify_solution(triad, vdf_difficulty, vdf_output, vdf_proof) is entered
VerifyCall(v, args) ==
    /\ puzzle.pc \in {"created", "solving", "solved", "exhausted", "raised"}
    /\ puzzle.asked = "none"
    /\ ver[v].pc = "idle"
    /\ ver' = [ver EXCEPT ![v] = [verifier0 EXCEPT
                  !.pc = "l89", !.vdf_difficulty = args[1], !.vdf_output = args[2],
                  !.vdf_proof = args[3], !.nonce_at_call = triad.nonce]]
    /\ UNCHANGED <<triad, call, puzzle>>

\* line 89: original_nonce = triad.nonce
VerifySave(v) ==
    /\ ver[v].pc = "l89"
    /\ ver' = [ver EXCEPT ![v].pc = "l90", ![v].original_nonce = triad.nonce]
    /\ UNCHANGED <<triad, call, puzzle>>

\* line 90: triad.nonce = 0
VerifyZero(v) ==
    /\ ver[v].pc = "l90"
    /\ triad' = [triad EXCEPT !.nonce = nonce_for_challenge(ver[v].original_nonce)]
    /\ ver' = [ver EXCEPT ![v].pc = "l91"]
    /\ UNCHANGED <<call, puzzle>>

\* line 91: challenge = triad.get_header_hash()
VerifyChallenge(v) ==
    /\ ver[v].pc = "l91"
    /\ triad' = Triad_calculate_merkle_root(triad)
    /\ ver' = [ver EXCEPT ![v].pc = "l92", ![v].challenge = Triad_get_header_hash(triad)]
    /\ UNCHANGED <<call, puzzle>>

\* line 92: triad.nonce = original_nonce
VerifyRestore(v) ==
    /\ ver[v].pc = "l92"
    /\ triad' = [triad EXCEPT !.nonce = nonce_after_challenge(ver[v].original_nonce)]
    /\ ver' = [ver EXCEPT ![v].pc = "l94"]
    /\ UNCHANGED <<call, puzzle>>

\* lines 94-96: if not VDF.verify(...): return False
VerifyVdf(v) ==
    /\ ver[v].pc = "l94"
    /\ IF ~VDF_verify(ver[v].challenge, ver[v].vdf_difficulty,
                      ver[v].vdf_output, ver[v].vdf_proof)
       THEN ver' = [ver EXCEPT ![v].pc = "done", ![v].result = FALSE, ![v].exit = "vdf"]
       ELSE ver' = [ver EXCEPT ![v].pc = "l99"]
    /\ UNCHANGED <<triad, call, puzzle>>

\* lines 99-111: the proof-of-work check at the header's nonce
\* (line 100 raises for a negative difficulty, before the header is hashed)
VerifyPow(v) ==
    /\ ver[v].pc = "l99"
    /\ IF shift_raises(triad.difficulty)
       THEN /\ ver' = [ver EXCEPT ![v].pc = "done", ![v].result = FALSE,
                                  ![v].exit = "ValueError"]
            /\ UNCHANGED triad
       ELSE /\ triad' = Triad_calculate_merkle_root(triad)
            /\ LET header_hash == Triad_get_header_hash(triad)
                   final_hash == puzzle_hash(header_hash, ver[v].vdf_output)
               IN  IF ~meets_target(final_hash, pow_target(triad.difficulty))
                   THEN ver' = [ver EXCEPT ![v].pc = "done", ![v].result = FALSE,
                                           ![v].exit = "pow"]
                   ELSE ver' = [ver EXCEPT ![v].pc = "done", ![v].result = TRUE,
                                           ![v].exit = "ok"]
    /\ UNCHANGED <<call, puzzle>>

\* the caller takes the returned value
VerifyReturn(v) ==
    /\ ver[v].pc = "done"
    /\ ver' = [ver EXCEPT ![v] = verifier0]
    /\ UNCHANGED <<triad, call, puzzle>>

VerifyStep(v) ==
    \/ VerifySave(v)
    \/ VerifyZero(v)
    \/ VerifyChallenge(v)
    \/ VerifyRestore(v)
    \/ VerifyVdf(v)
    \/ VerifyPow(v)
    \/ VerifyReturn(v)

----------------------------------------------------------------------------
(* Specifications *)

\* no service has been used
ServicesIdle ==
    /\ coordinator = coordinator0 /\ slashing = slashing0 /\ tm = tm0
    /\ tpc = tpc0 /\ guard = guard0

Idle == /\ ServicesIdle
        /\ vdf = vdf0 /\ mk = mk0 /\ call = call0
        /\ puzzle = puzzle0 /\ ver = ver0 /\ agg = agg0 /\ bls = bls0
        /\ triad = Triad(GenesisParent, Miner, 1, 0, 7)

\* Mining and validating one Triad: the header is built, a PoF is bound to
\* it, the puzzle is created and solved, and one validator at a time verifies
Init ==
    /\ ServicesIdle
    /\ vdf = vdf0 /\ mk = mk0 /\ call = call0 /\ puzzle = puzzle0 /\ ver = ver0
    /\ agg = agg0 /\ bls = bls0
    /\ triad \in TriadInits

Next ==
    \/ (\E tx \in MinerPool : puzzle.pc = "unbound" /\ AddTransaction(tx)
                           /\ UNCHANGED <<vdf, mk, puzzle, ver, agg, bls>>)
    \/ (\E d \in 0..MaxVdfDifficulty : PoF_init(d) /\ UNCHANGED <<vdf, mk, ver, agg, bls>>)
    \/ (GetPuzzleChallenge /\ UNCHANGED <<vdf, mk, ver, agg, bls>>)
    \/ (CreatePuzzle /\ UNCHANGED <<vdf, mk, ver, agg, bls>>)
    \/ (PuzzleReturn /\ UNCHANGED <<vdf, mk, ver, agg, bls>>)
    \/ (SolveStart /\ UNCHANGED <<vdf, mk, ver, agg, bls>>)
    \/ (SolveStep /\ UNCHANGED <<vdf, mk, ver, agg, bls>>)
    \/ (\E args \in VerifyArgs : NoVerifierRunning /\ VerifyCall(1, args)
                                 /\ UNCHANGED <<vdf, mk, agg, bls>>)
    \/ (VerifyStep(1) /\ UNCHANGED <<vdf, mk, agg, bls>>)

Spec == Init /\ [][Next /\ UNCHANGED services]_vars

\* one statement of a running verify_solution call
VerifyStatement(v) ==
    \/ VerifySave(v)
    \/ VerifyZero(v)
    \/ VerifyChallenge(v)
    \/ VerifyRestore(v)
    \/ VerifyVdf(v)
    \/ VerifyPow(v)

\* Two validators (threads) verify the mined header: each calls
\* verify_solution once, and their statements interleave freely
NextConcurrent ==
    \/ (\E tx \in MinerPool : puzzle.pc = "unbound" /\ AddTransaction(tx)
                           /\ UNCHANGED <<vdf, mk, puzzle, ver, agg, bls>>)
    \/ (\E d \in 0..MaxVdfDifficulty : PoF_init(d) /\ UNCHANGED <<vdf, mk, ver, agg, bls>>)
    \/ (puzzle.pc = "bound" /\ CreatePuzzle /\ UNCHANGED <<vdf, mk, ver, agg, bls>>)
    \/ (PuzzleReturn /\ UNCHANGED <<vdf, mk, ver, agg, bls>>)
    \/ (puzzle.pc = "created" /\ SolveStart /\ UNCHANGED <<vdf, mk, ver, agg, bls>>)
    \/ (SolveStep /\ UNCHANGED <<vdf, mk, ver, agg, bls>>)
    \/ (\E v \in Verifiers, args \in VerifyArgs :
            puzzle.pc = "solved" /\ VerifyCall(v, args) /\ UNCHANGED <<vdf, mk, agg, bls>>)
    \/ (\E v \in Verifiers : VerifyStatement(v) /\ UNCHANGED <<vdf, mk, agg, bls>>)

SpecConcurrent == Init /\ [][NextConcurrent /\ UNCHANGED services]_vars

\* The Triad alone: transactions added, roots and hashes computed, and a
\* contained transaction changed by its holder
NextTriad ==
    \/ (\E tx \in TxPool : ~call.tampered_once /\ AddTransaction(tx))
    \/ CalculateMerkleRoot
    \/ GetHeaderHash
    \/ (\E i \in 1..MaxTxs, f \in TxFields : \E x \in FieldValues(f) :
            TamperTransaction(i, f, x))

SpecTriad ==
    Idle /\ [][NextTriad /\ UNCHANGED <<vdf, mk, puzzle, ver, agg, bls>>
                      /\ UNCHANGED services]_vars

\* The header's fields: transactions added, then hashes taken around one
\* assignment to a field of the header
NextHeader ==
    \/ (\E tx \in MinerPool : ~call.hashed /\ AddTransaction(tx))
    \/ GetHeaderHash
    \/ (\E f \in CanonicalFields \cup OtherFields : \E x \in HeaderFieldValues(f) :
            AssignHeaderField(f, x))

SpecHeader ==
    Idle /\ [][NextHeader /\ UNCHANGED <<vdf, mk, puzzle, ver, agg, bls>>
                       /\ UNCHANGED services]_vars

\* The VDF alone
InitVDF == Idle

NextVDF ==
    \/ (\E c \in Challenges, d \in -1..MaxVdfDifficulty : VDF_init(c, d))
    \/ VDF_Compute
    \/ (\E c \in Challenges, d \in 0..MaxVdfDifficulty :
        \E o \in Presented(vdf.output, vdf.challenge), q \in {vdf.proof, sha256_hash(vdf.proof)} :
            VDF_Verify(c, d, o, q))

SpecVDF == InitVDF /\ [][NextVDF /\ UNCHANGED services]_vars

\* merkle_root alone
InitMerkle ==
    /\ ServicesIdle
    /\ vdf = vdf0 /\ call = call0 /\ puzzle = puzzle0 /\ ver = ver0 /\ agg = agg0
    /\ bls = bls0
    /\ triad = Triad(GenesisParent, Miner, 1, 0, 7)
    /\ \E items \in LeafLists : mk = [mk0 EXCEPT !.state = "list", !.items = items]

NextMerkle ==
    \/ Merkle_Root
    \/ (\E p \in Orders(Len(mk.items)) : Merkle_Permuted(p))

SpecMerkle == InitMerkle /\ [][NextMerkle /\ UNCHANGED services]_vars

\* the roots of two lists of leaves, one held against the other
NextBinding ==
    \/ Merkle_Root
    \/ (\E items \in LeafLists : Merkle_Other(items))

SpecBinding == InitMerkle /\ [][NextBinding /\ UNCHANGED services]_vars

\* Committee signatures and their aggregation
SecretKeys == {1, 2, CurveOrder - 1}

\* b"Triad_Data_Hash_#12345" and b"Malicious_Triad_Data", shortened
Messages == {<<84>>, <<77>>}

\* who signs what, in committee order
Signings == UNION {[1..n -> SecretKeys \X Messages] : n \in 1..MaxSigners}

\* each member signs its message; signatures and public keys are collected
Collect(signings) ==
    /\ agg.state = "none"
    /\ agg' = [agg0 EXCEPT
            !.state = "collected", !.signers = signings,
            !.signatures = [i \in 1..Len(signings) |-> Sign(signings[i][1], signings[i][2])],
            !.public_keys = [i \in 1..Len(signings) |-> SkToPk(signings[i][1])]]
    /\ UNCHANGED <<vdf, mk, triad, call, puzzle, ver, bls>>

\* the four aggregation functions on the collected lists
AggregateCollected ==
    /\ agg.state = "collected"
    /\ agg' = [agg EXCEPT
            !.state = "aggregated",
            !.agg_sig = aggregate_signatures(agg.signatures),
            !.agg_pk = aggregate_public_keys(agg.public_keys),
            !.sim_sig = bls_aggregate_signatures(agg.signatures),
            !.sim_pk = bls_aggregate_public_keys(agg.public_keys)]
    /\ UNCHANGED <<vdf, mk, triad, call, puzzle, ver, bls>>

\* the same functions on the lists taken in the order p
AggregatePermuted(p) ==
    /\ agg.state = "aggregated"
    /\ LET sigs == [i \in 1..Len(agg.signatures) |-> agg.signatures[p[i]]]
           pks == [i \in 1..Len(agg.public_keys) |-> agg.public_keys[p[i]]]
       IN  agg' = [agg EXCEPT
                !.state = "permuted", !.order = p,
                !.p_agg_sig = aggregate_signatures(sigs),
                !.p_agg_pk = aggregate_public_keys(pks),
                !.p_sim_sig = bls_aggregate_signatures(sigs),
                !.p_sim_pk = bls_aggregate_public_keys(pks)]
    /\ UNCHANGED <<vdf, mk, triad, call, puzzle, ver, bls>>

NextBLS ==
    \/ (\E signings \in Signings : Collect(signings))
    \/ AggregateCollected
    \/ (\E p \in Orders(Len(agg.signatures)) : AggregatePermuted(p))

SpecBLS == Idle /\ [][NextBLS /\ UNCHANGED services]_vars

\* The committee's finality check: keys, signatures, aggregation, verification
VerifyAggregated(message) ==
    /\ agg.state = "aggregated" /\ agg.agg_sig.ok /\ agg.agg_pk.ok
    /\ bls.op = "none"
    /\ LET r == verify_aggregated_signature(agg.agg_sig.value, agg.agg_pk.value,
                                            message)
       IN  bls' = [bls0 EXCEPT !.op = "verify_aggregated", !.message = message,
                               !.ok = r.ok, !.error = r.error, !.result = r.value]
    /\ UNCHANGED <<vdf, mk, triad, call, puzzle, ver, agg>>

\* what an auditor may be handed as signatures: sound ones, one presented
\* with another message or another signer's key, random bytes
\* (os.urandom(96)), a short byte string, and no BLSSignature at all
SignaturePool ==
    {BLSSignature(Sign(1, <<84>>), SkToPk(1), <<84>>),
     BLSSignature(Sign(2, <<77>>), SkToPk(2), <<77>>),
     BLSSignature(Sign(1, <<84>>), SkToPk(1), <<77>>),
     BLSSignature(Sign(1, <<84>>), SkToPk(2), <<84>>),
     BLSSignature([i \in 1..SignatureLength |-> 255], SkToPk(2), <<77>>),
     BLSSignature(<<1, 2>>, SkToPk(1), <<84>>),
     BLSSignature(None, None, <<84>>),
     NotASignature}

Batches == UNION {[1..n -> SignaturePool] : n \in 0..MaxBatch}

\* ProductionBLS.batch_verify called on a list of signatures
BatchVerify(signatures) ==
    /\ bls.op = "none" /\ agg.state = "none"
    /\ LET r == batch_verify(signatures)
       IN  bls' = [bls0 EXCEPT !.op = "batch_verify", !.batch = signatures,
                               !.ok = r.ok, !.error = r.error, !.results = r]
    /\ UNCHANGED <<vdf, mk, triad, call, puzzle, ver, agg>>

\* byte strings handed in as signatures and as public keys: sound ones, one
\* too short, one a byte too long
PresentedSignatures ==
    {Sign(1, <<84>>), Sign(2, <<84>>), <<1, 2>>, [i \in 1..(SignatureLength + 1) |-> 0]}

PresentedPublicKeys ==
    {SkToPk(1), SkToPk(2), <<3>>, [i \in 1..(PublicKeyLength + 1) |-> 0]}

PresentedLists(pool) == UNION {[1..n -> pool] : n \in 0..MaxPresented}

\* aggregate_signatures and aggregate_public_keys called on lists as they come
AggregatePresented(signatures, public_keys) ==
    /\ agg.state = "none" /\ bls.op = "none"
    /\ agg' = [agg0 EXCEPT
            !.state = "answered",
            !.signatures = signatures, !.public_keys = public_keys,
            !.agg_sig = aggregate_signatures(signatures),
            !.agg_pk = aggregate_public_keys(public_keys)]
    /\ UNCHANGED <<vdf, mk, triad, call, puzzle, ver, bls>>

\* what os.urandom may answer, as integers, and the identifiers "" and "1"
Draws == UNION {[1..n -> 0..(RandomRange - 1)] : n \in 1..MaxDraws}

KeyIds == {<< >>, <<49>>}

\* generate_key_pair(key_id), the loop taking the draws one after the other
\* and returning at the last of them
GenerateKeyPair(draws, key_id) ==
    /\ bls.op = "none" /\ agg.state = "none"
    /\ LET r == generate_key_pair(draws, key_id)
       IN  /\ r.returned /\ r.used = Len(draws)
           /\ bls' = [bls0 EXCEPT !.op = "generate_key_pair", !.draws = draws,
                                  !.keypair = r.value]
    /\ UNCHANGED <<vdf, mk, triad, call, puzzle, ver, agg>>

NextCommittee ==
    \/ (bls.op = "none" /\ agg.state = "none" /\
            \E draws \in Draws, key_id \in KeyIds : GenerateKeyPair(draws, key_id))
    \/ (bls.op = "none" /\ agg.state = "none" /\
            \E signatures \in PresentedLists(PresentedSignatures),
               public_keys \in PresentedLists(PresentedPublicKeys) :
                AggregatePresented(signatures, public_keys))
    \/ (bls.op = "none" /\ agg.state = "none" /\
            \E signatures \in Batches : BatchVerify(signatures))
    \/ (bls.op = "none" /\ agg.state = "none" /\
            \E signings \in Signings : Collect(signings))
    \/ (bls.op = "none" /\ AggregateCollected)
    \/ (\E m \in Messages : VerifyAggregated(m))

SpecCommittee == Idle /\ [][NextCommittee /\ UNCHANGED services]_vars

\* Auditing: each verification function called on what a validator may be
\* handed, sound or malformed, one function at a time
AuditInits == {Triad(GenesisParent, Miner, 1, d, 7) : d \in {-1, 1}}

InitAudit ==
    /\ ServicesIdle
    /\ vdf = vdf0 /\ mk = mk0 /\ call = call0 /\ puzzle = puzzle0 /\ ver = ver0
    /\ agg = agg0 /\ bls = bls0
    /\ triad \in AuditInits

\* (vdf_difficulty, vdf_output, vdf_proof) with an absent or empty output
MalformedArgs ==
    { <<puzzle.vdf_difficulty, None, None>>,
      <<puzzle.vdf_difficulty, << >>, << >>>>,
      <<puzzle.vdf_difficulty, puzzle.vdf_output, None>> }

\* ProductionBLS.verify_signature called on one signature object
VerifySignature(signature) ==
    /\ bls.op = "none" /\ agg.state = "none"
    /\ LET r == verify_signature(signature)
       IN  bls' = [bls0 EXCEPT !.op = "verify_signature", !.batch = <<signature>>,
                               !.ok = r.ok, !.error = r.error, !.result = r.value]
    /\ UNCHANGED <<vdf, mk, triad, call, puzzle, ver, agg>>

\* ProductionBLS.verify_aggregated_signature called on values as they come
VerifyPresented(signature, public_key, message) ==
    /\ bls.op = "none" /\ agg.state = "none"
    /\ LET r == verify_aggregated_signature(signature, public_key, message)
       IN  bls' = [bls0 EXCEPT !.op = "verify_presented", !.message = message,
                               !.batch = <<BLSSignature(signature, public_key, message)>>,
                               !.ok = r.ok, !.error = r.error, !.result = r.value]
    /\ UNCHANGED <<vdf, mk, triad, call, puzzle, ver, agg>>

NextAudit ==
    \/ (vdf = vdf0 /\ bls = bls0 /\ Next)
    \/ (vdf = vdf0 /\ bls = bls0 /\ \E args \in MalformedArgs :
            NoVerifierRunning /\ VerifyCall(1, args) /\ UNCHANGED <<vdf, mk, agg, bls>>)
    \/ (puzzle = puzzle0 /\ call = call0 /\ bls = bls0 /\ NextVDF)
    \/ (puzzle = puzzle0 /\ call = call0 /\ vdf = vdf0 /\
            \E signature \in SignaturePool : VerifySignature(signature))
    \/ (puzzle = puzzle0 /\ call = call0 /\ vdf = vdf0 /\
            \E signature \in PresentedSignatures \cup {None},
               public_key \in PresentedPublicKeys \cup {None},
               message \in Messages \cup {None} :
                VerifyPresented(signature, public_key, message))

SpecAudit == InitAudit /\ [][NextAudit /\ UNCHANGED services]_vars

\* Transactional memory: transactions begin, read, write, validate, commit
\* and abort in any order
TxIds == {"tx_001", "tx_002"}

Keys == {"balance_alice", "balance_bob"}

\* the outcome of a call written into tm
Answered(memory, op, tx_id, result, raised) ==
    [memory EXCEPT !.op = op, !.tx_id = tx_id, !.result = result, !.raised = raised]

\* memory.begin_transaction(tx_id, triad_id)
BeginTransaction(tx_id, triad_id) ==
    /\ tm' = IF tx_id \in DOMAIN tm.transactions
             THEN Answered(tm, "begin_transaction", tx_id, FALSE, FALSE)
             ELSE Answered([tm EXCEPT !.transactions =
                                (tx_id :> TransactionRecord(tx_id, {}, {}, "active", triad_id))
                                @@ tm.transactions],
                           "begin_transaction", tx_id, TRUE, FALSE)
    /\ UNCHANGED <<coordinator, slashing, tpc, guard>>

\* memory.read(tx_id, key): ValueError for an unknown or inactive transaction
TmRead(tx_id, key) ==
    /\ tm' = IF tx_id \notin DOMAIN tm.transactions
             THEN Answered(tm, "read", tx_id, FALSE, TRUE)
             ELSE IF tm.transactions[tx_id].state # "active"
             THEN Answered(tm, "read", tx_id, FALSE, TRUE)
             ELSE Answered([tm EXCEPT !.transactions[tx_id].read_set = @ \cup {key}],
                           "read", tx_id, TRUE, FALSE)
    /\ UNCHANGED <<coordinator, slashing, tpc, guard>>

\* memory.write(tx_id, key, value)
TmWrite(tx_id, key) ==
    /\ tm' = IF tx_id \notin DOMAIN tm.transactions
             THEN Answered(tm, "write", tx_id, FALSE, FALSE)
             ELSE IF tm.transactions[tx_id].state # "active"
             THEN Answered(tm, "write", tx_id, FALSE, FALSE)
             ELSE Answered([tm EXCEPT !.transactions[tx_id].write_set = @ \cup {key}],
                           "write", tx_id, TRUE, FALSE)
    /\ UNCHANGED <<coordinator, slashing, tpc, guard>>

\* memory.validate_transaction(tx_id): line 141 sets VALIDATING before the
\* loop, and the return False of a conflict leaves it set
ValidateTransaction(tx_id) ==
    /\ tm' = IF tx_id \notin DOMAIN tm.transactions
             THEN Answered(tm, "validate_transaction", tx_id, FALSE, FALSE)
             ELSE IF tm.transactions[tx_id].state # "active"
             THEN Answered(tm, "validate_transaction", tx_id, FALSE, FALSE)
             ELSE IF has_conflict(tm.transactions, tx_id)
             THEN Answered([tm EXCEPT
                                !.transactions[tx_id].state = "validating",
                                !.conflicted = @ \cup {tx_id}],
                           "validate_transaction", tx_id, FALSE, FALSE)
             ELSE Answered([tm EXCEPT !.transactions[tx_id].state = "validating"],
                           "validate_transaction", tx_id, TRUE, FALSE)
    /\ UNCHANGED <<coordinator, slashing, tpc, guard>>

\* memory.commit_transaction(tx_id)
CommitTransaction(tx_id) ==
    /\ tm' = IF tx_id \notin DOMAIN tm.transactions
             THEN Answered(tm, "commit_transaction", tx_id, FALSE, FALSE)
             ELSE IF tm.transactions[tx_id].state # "validating"
             THEN Answered(tm, "commit_transaction", tx_id, FALSE, FALSE)
             ELSE Answered([tm EXCEPT
                                !.global_state = apply_writes(@, tx_id,
                                                    tm.transactions[tx_id].write_set),
                                !.transactions[tx_id].state = "committed",
                                !.version_counter = @ + 1],
                           "commit_transaction", tx_id, TRUE, FALSE)
    /\ UNCHANGED <<coordinator, slashing, tpc, guard>>

\* memory.abort_transaction(tx_id)
AbortTransaction(tx_id) ==
    /\ tm' = IF tx_id \notin DOMAIN tm.transactions
             THEN Answered(tm, "abort_transaction", tx_id, FALSE, FALSE)
             ELSE Answered([tm EXCEPT !.transactions[tx_id].state = "aborted"],
                           "abort_transaction", tx_id, TRUE, FALSE)
    /\ UNCHANGED <<coordinator, slashing, tpc, guard>>

NextMemory ==
    \/ (\E tx_id \in TxIds : BeginTransaction(tx_id, 1))
    \/ (\E tx_id \in TxIds, key \in Keys : TmRead(tx_id, key))
    \/ (\E tx_id \in TxIds, key \in Keys : TmWrite(tx_id, key))
    \/ (\E tx_id \in TxIds : ValidateTransaction(tx_id))
    \/ (\E tx_id \in TxIds : CommitTransaction(tx_id))
    \/ (\E tx_id \in TxIds : AbortTransaction(tx_id))

SpecMemory == Idle /\ [][NextMemory /\ UNCHANGED chain]_vars

\* Cross-shard two-phase commit: transactions begin, and prepare_phase,
\* commit_phase and abort_transaction are called on them in any order
CrossShardIds == {"uuid_1", "uuid_2"}

TriadIdLists == {<<1, 2>>, <<1, 2, 3>>}

\* tpc.begin_cross_shard_transaction(triad_ids, operations); uuid4 answers tx_id
BeginCrossShard(tx_id, triad_ids) ==
    /\ tx_id \notin DOMAIN tpc.transactions
    /\ tpc' = [tpc EXCEPT
            !.transactions = (tx_id :> CrossShardTransaction(tx_id, triad_ids)) @@ @,
            !.applied = (tx_id :> 0) @@ @,
            !.op = "begin_cross_shard_transaction", !.tx_id = tx_id, !.result = TRUE]
    /\ UNCHANGED <<coordinator, slashing, tm, guard>>

\* tpc.prepare_phase(tx_id)
PreparePhase(tx_id, prepare_success) ==
    /\ IF tx_id \notin DOMAIN tpc.transactions
       THEN /\ prepare_success = << >>
            /\ tpc' = [tpc EXCEPT !.op = "prepare_phase", !.tx_id = tx_id,
                                   !.result = FALSE]
       ELSE /\ Len(prepare_success) = Len(tpc.transactions[tx_id].triad_ids)
            /\ tpc' = [tpc EXCEPT
                    !.transactions[tx_id] = prepare_phase(@, prepare_success),
                    !.op = "prepare_phase", !.tx_id = tx_id, !.result = TRUE]
    /\ UNCHANGED <<coordinator, slashing, tm, guard>>

\* tpc.commit_phase(tx_id)
CommitPhase(tx_id) ==
    /\ IF tx_id \notin DOMAIN tpc.transactions
       THEN tpc' = [tpc EXCEPT !.op = "commit_phase", !.tx_id = tx_id, !.result = FALSE]
       ELSE IF tpc.transactions[tx_id].status # "prepared"
       THEN tpc' = [tpc EXCEPT !.op = "commit_phase", !.tx_id = tx_id, !.result = FALSE]
       ELSE IF commit_success(tpc.transactions[tx_id])
       THEN /\ tpc.applied[tx_id] < MaxApplied
            /\ tpc' = [tpc EXCEPT !.transactions[tx_id].status = "committed",
                                   !.applied[tx_id] = @ + 1,
                                   !.op = "commit_phase", !.tx_id = tx_id,
                                   !.result = TRUE]
       ELSE tpc' = [tpc EXCEPT !.transactions[tx_id].status = "aborted",
                               !.op = "commit_phase", !.tx_id = tx_id,
                               !.result = FALSE]
    /\ UNCHANGED <<coordinator, slashing, tm, guard>>

\* tpc.abort_transaction(tx_id)
AbortCrossShard(tx_id) ==
    /\ IF tx_id \notin DOMAIN tpc.transactions
       THEN tpc' = [tpc EXCEPT !.op = "abort_transaction", !.tx_id = tx_id,
                               !.result = FALSE]
       ELSE tpc' = [tpc EXCEPT !.transactions[tx_id].status = "aborted",
                               !.op = "abort_transaction", !.tx_id = tx_id,
                               !.result = TRUE]
    /\ UNCHANGED <<coordinator, slashing, tm, guard>>

NextCrossShard ==
    \/ (\E tx_id \in CrossShardIds, triad_ids \in TriadIdLists :
            BeginCrossShard(tx_id, triad_ids))
    \/ (\E tx_id \in CrossShardIds :
            \E prepare_success \in UNION {[1..n -> BOOLEAN] : n \in {0, 2, 3}} :
                PreparePhase(tx_id, prepare_success))
    \/ (\E tx_id \in CrossShardIds : CommitPhase(tx_id))
    \/ (\E tx_id \in CrossShardIds : AbortCrossShard(tx_id))

SpecCrossShard == Idle /\ [][NextCrossShard /\ UNCHANGED chain]_vars

\* A SecureContract and its guard: deposits and withdrawals, and code that
\* enters and leaves non_reentrant blocks of the guard, nested in any order
ContractAddresses == {"0x123", "0x456"}

Users == {"user1"}

Amounts == {1, 2}

\* the address has a non_reentrant block among those executing
Executing(frames, contract_address) ==
    \E i \in 1..Len(frames) : frames[i] = contract_address

Snapshot == [reentrancy_guard |-> guard.reentrancy_guard, frames |-> guard.frames]

\* with guard.non_reentrant(contract_address): up to the first statement of
\* the block
EnterNonReentrant(contract_address) ==
    /\ guard.outcome # "blocked"
    /\ LET entry == non_reentrant_enter(guard.reentrancy_guard, contract_address)
       IN  guard' = [guard EXCEPT
                !.reentrancy_guard = entry.guard,
                !.frames = IF entry.outcome = "entered"
                           THEN Append(@, contract_address) ELSE @,
                !.op = "non_reentrant", !.contract_address = contract_address,
                !.outcome = entry.outcome, !.before = Snapshot]
    /\ UNCHANGED <<coordinator, slashing, tm, tpc>>

\* the innermost block is left, by its last statement or by an exception
ExitNonReentrant(how) ==
    /\ guard.outcome # "blocked"
    /\ guard.frames # << >>
    /\ LET contract_address == guard.frames[Len(guard.frames)]
       IN  guard' = [guard EXCEPT
                !.reentrancy_guard = non_reentrant_exit(@, contract_address),
                !.frames = SubSeq(@, 1, Len(@) - 1),
                !.op = "exit", !.contract_address = contract_address,
                !.outcome = how, !.before = Snapshot]
    /\ UNCHANGED <<coordinator, slashing, tm, tpc>>

\* secure.deposit(user, amount)
Deposit(user, amount) ==
    /\ guard.outcome # "blocked"
    /\ guard.total_supply + amount <= MaxSupply
    /\ guard' = [guard EXCEPT
            !.balances = (user :> (IF user \in DOMAIN @ THEN @[user] ELSE 0) + amount) @@ @,
            !.total_supply = @ + amount,
            !.op = "deposit", !.contract_address = guard.address,
            !.outcome = "None", !.before = Snapshot]
    /\ UNCHANGED <<coordinator, slashing, tm, tpc>>

\* secure.withdraw(user, amount)
Withdraw(user, amount) ==
    /\ guard.outcome # "blocked"
    /\ LET entry == non_reentrant_enter(guard.reentrancy_guard, guard.address)
       IN  IF entry.outcome # "entered"
           THEN guard' = [guard EXCEPT
                    !.reentrancy_guard = entry.guard,
                    !.op = "withdraw", !.contract_address = guard.address,
                    !.outcome = entry.outcome, !.before = Snapshot]
           ELSE IF user \notin DOMAIN guard.balances \/ guard.balances[user] < amount
           THEN guard' = [guard EXCEPT
                    !.reentrancy_guard = non_reentrant_exit(entry.guard, guard.address),
                    !.op = "withdraw", !.contract_address = guard.address,
                    !.outcome = "False", !.before = Snapshot]
           ELSE guard' = [guard EXCEPT
                    !.reentrancy_guard = non_reentrant_exit(entry.guard, guard.address),
                    !.balances[user] = @ - amount,
                    !.total_supply = @ - amount,
                    !.op = "withdraw", !.contract_address = guard.address,
                    !.outcome = "True", !.before = Snapshot]
    /\ UNCHANGED <<coordinator, slashing, tm, tpc>>

NextGuard ==
    \/ (\E contract_address \in ContractAddresses : EnterNonReentrant(contract_address))
    \/ (\E how \in {"return", "exception"} : ExitNonReentrant(how))
    \/ (\E user \in Users, amount \in Amounts : Deposit(user, amount))
    \/ (\E user \in Users, amount \in Amounts : Withdraw(user, amount))

SpecGuard == Idle /\ [][NextGuard /\ UNCHANGED chain]_vars

\* Slashing: signed headers are recorded and headers are tested
ValidatorAddresses == {"validator_1", "validator_2"}

BlockHeaders == {BlockHeader(h, x) : h \in {1, 2}, x \in {"hash_1", "hash_2"}}

\* slashing_condition.add_signed_block(validator_address, block_header)
AddSignedBlock(validator_address, block_header) ==
    /\ Len(slashing.added) < MaxSigned
    /\ slashing' = [slashing EXCEPT
            !.signed_blocks = add_signed_block(@, validator_address, block_header),
            !.added = Append(@, <<validator_address, block_header>>),
            !.op = "add_signed_block", !.validator_address = validator_address,
            !.block_header = block_header, !.before = slashing.signed_blocks,
            !.result = FALSE]
    /\ UNCHANGED <<coordinator, tm, tpc, guard>>

\* slashing_condition.detect_double_signing(validator_address, block_header)
DetectDoubleSigning(validator_address, block_header) ==
    /\ slashing' = [slashing EXCEPT
            !.op = "detect_double_signing", !.validator_address = validator_address,
            !.block_header = block_header, !.before = slashing.signed_blocks,
            !.result = detect_double_signing(slashing.signed_blocks,
                                             validator_address, block_header)]
    /\ UNCHANGED <<coordinator, tm, tpc, guard>>

NextSlashing ==
    \/ (\E v \in ValidatorAddresses, h \in BlockHeaders : AddSignedBlock(v, h))
    \/ (\E v \in ValidatorAddresses, h \in BlockHeaders : DetectDoubleSigning(v, h))

SpecSlashing == Idle /\ [][NextSlashing /\ UNCHANGED chain]_vars

\* two_phase_commit: a coordinator is built over fresh participants and
\* executes its transaction
ParticipantLists ==
    UNION {[1..n -> {Participant(k) : k \in PrepareKinds}] : n \in 0..MaxParticipants}

\* Coordinator(participants)
Coordinator_init(participants) ==
    /\ coordinator.state = "none"
    /\ coordinator' = [coordinator0 EXCEPT !.state = "constructed",
                                           !.participants = participants]
    /\ UNCHANGED <<slashing, tm, tpc, guard>>

\* coordinator.execute_transaction(), a first time or once more
ExecuteTransaction ==
    /\ coordinator.state \in {"constructed", "returned"}
    /\ LET r == execute_transaction(coordinator.participants)
       IN  coordinator' = [coordinator EXCEPT !.state = "returned",
                              !.participants = r.participants, !.result = r.result]
    /\ UNCHANGED <<slashing, tm, tpc, guard>>

NextCoordinator ==
    \/ (\E participants \in ParticipantLists : Coordinator_init(participants))
    \/ ExecuteTransaction

SpecCoordinator == Idle /\ [][NextCoordinator /\ UNCHANGED chain]_vars

----------------------------------------------------------------------------
(* Properties *)

\* the call of verifier v was handed the miner's own puzzle values
MinersValues(v) ==
    /\ ver[v].vdf_difficulty = puzzle.vdf_difficulty
    /\ ver[v].vdf_output = puzzle.vdf_output
    /\ ver[v].vdf_proof = puzzle.vdf_proof

\* C1: when create_puzzle ran on a header with nonce 0, solve_puzzle returned
\* n for its vdf_output, and the header's nonce is n, verify_solution called
\* with the puzzle's vdf_difficulty, vdf_output and vdf_proof returns True.
SolveThenVerify ==
    \A v \in Verifiers :
        ( /\ ver[v].pc = "done"
          /\ puzzle.pc = "solved"
          /\ puzzle.created_nonce = 0
          /\ ver[v].nonce_at_call = puzzle.solution
          /\ MinersValues(v) )
        => ver[v].result = TRUE

SolveThenVerifyWitness ==
    \E v \in Verifiers :
        /\ ver[v].pc = "done" /\ puzzle.pc = "solved" /\ puzzle.created_nonce = 0
        /\ ver[v].nonce_at_call = puzzle.solution /\ MinersValues(v)
        /\ puzzle.solution > 0 /\ triad.transactions # << >>
        /\ ver[v].result = TRUE

\* C2: get_puzzle_challenge returns the hash the bound header has with nonce
\* 0 and every other field unchanged, whatever the header's nonce is.
ChallengeIsZeroNonceHash ==
    puzzle.asked = "get_puzzle_challenge"
        => puzzle.last_challenge = Triad_get_header_hash([triad EXCEPT !.nonce = 0])

\* C3: every create_puzzle / get_puzzle_challenge call made after a
\* solve_puzzle has started yields the challenge, and the vdf_output, of the
\* create_puzzle call made before the search began.
ChallengeStableAfterSearch ==
    (puzzle.asked # "none" /\ puzzle.asked_after_search)
        => /\ puzzle.last_challenge = puzzle.challenge0
           /\ (puzzle.asked = "create_puzzle" => puzzle.last_output = puzzle.output0)

\* C4: when verify_solution returns, on any exit path, the header's nonce is
\* what it was when the call was made.
VerifyKeepsNonce ==
    \A v \in Verifiers : ver[v].pc = "done" => triad.nonce = ver[v].nonce_at_call

VerifyKeepsNonceWitness ==
    \E v \in Verifiers :
        /\ ver[v].pc = "done" /\ ver[v].exit = "vdf" /\ ver[v].nonce_at_call > 0
        /\ triad.nonce = ver[v].nonce_at_call

\* VDF.verify was called with the instance's challenge and difficulty
VerifiedOwnInstance ==
    /\ vdf.state = "verified"
    /\ vdf.v_challenge = vdf.challenge
    /\ vdf.v_difficulty = vdf.difficulty

\* C5: VDF.verify(c, d, output, proof) is True for the output and proof that
\* VDF(c, d).compute() returned.
VdfRoundTrip ==
    (VerifiedOwnInstance /\ vdf.v_output = vdf.output /\ vdf.v_proof = vdf.proof)
        => vdf.result = TRUE

VdfRoundTripWitness ==
    /\ VerifiedOwnInstance /\ vdf.v_output = vdf.output /\ vdf.v_proof = vdf.proof
    /\ vdf.difficulty >= 2 /\ vdf.result = TRUE

\* C6: VDF.verify(c, d, output', proof) is False for every output' other than
\* the computed output, with the computed proof.
VdfTamperRejected ==
    (VerifiedOwnInstance /\ vdf.v_proof = vdf.proof /\ vdf.v_output # vdf.output)
        => vdf.result = FALSE

VdfTamperRejectedWitness ==
    /\ VerifiedOwnInstance /\ vdf.v_proof = vdf.proof
    /\ \E i \in 1..Len(vdf.output) : vdf.v_output = FlipBit(vdf.output, i)
    /\ vdf.result = FALSE

\* the permuted list was taken in an order other than the original one
Reordered == \E i \in 1..Len(mk.items) : mk.order[i] # i

NotAllIdentical == \E i, j \in 1..Len(mk.items) : mk.items[i] # mk.items[j]

\* C7 as claimed: for a list of 2 or more leaves that are not all identical,
\* every permutation yields a root different from the original root.
EveryPermutationChangesRoot ==
    (mk.state = "permuted" /\ Len(mk.items) >= 2 /\ NotAllIdentical /\ Reordered)
        => mk.permuted_root # mk.root

\* C7 as amended: a permutation changes the root exactly when it changes the
\* list; a permutation that only exchanges equal leaves leaves the root as is.
PermutationChangesRoot ==
    mk.state = "permuted"
        => (mk.permuted # mk.items <=> mk.permuted_root # mk.root)

PermutationChangesRootWitness ==
    /\ mk.state = "permuted" /\ Len(mk.items) = 3 /\ mk.permuted # mk.items
    /\ mk.permuted_root # mk.root

\* a header hash was recomputed after a contained transaction was changed
RehashedAfterChange ==
    call.op = "get_header_hash" /\ call.changed /\ Len(triad.transactions) >= 1

\* the change replaced an absent signature or public key by an empty one, or
\* the other way round
AbsentForEmpty ==
    /\ call.field \in {"signature", "public_key"}
    /\ ~Truthy(call.old) /\ ~Truthy(call.new)

\* C8 as claimed: after any field of a contained transaction was changed, the
\* next get_header_hash yields a different merkle root and header hash.
AnyChangeIsEvident ==
    RehashedAfterChange
        => (call.root # call.prev_root /\ call.hash # call.prev_hash)

\* C8 as amended: the root and the hash change for every change of a field,
\* except a change between an absent (None) and an empty signature or public
\* key, which leaves both as they were.
ChangeIsEvident ==
    RehashedAfterChange
        => IF AbsentForEmpty
           THEN call.root = call.prev_root /\ call.hash = call.prev_hash
           ELSE call.root # call.prev_root /\ call.hash # call.prev_hash

ChangeIsEvidentWitness ==
    /\ RehashedAfterChange /\ call.field = "signature" /\ Truthy(call.new)
    /\ call.index = 2 /\ call.root # call.prev_root /\ call.hash # call.prev_hash

AppendedTo(t, tx) == [t EXCEPT !.transactions = Append(@, tx)]

AggregationOrderIndependent ==
    agg.state = "permuted"
        => /\ agg.agg_sig.ok /\ agg.p_agg_sig = agg.agg_sig
           /\ agg.agg_pk.ok /\ agg.p_agg_pk = agg.agg_pk
           /\ agg.p_sim_sig = agg.sim_sig
           /\ agg.p_sim_pk = agg.sim_pk

AggregationOrderIndependentWitness ==
    /\ agg.state = "permuted" /\ Len(agg.signatures) = 3
    /\ \E i \in 1..3 : agg.order[i] # i
    /\ [i \in 1..3 |-> agg.signatures[agg.order[i]]] # agg.signatures
    /\ agg.p_agg_sig = agg.agg_sig /\ agg.p_sim_sig = agg.sim_sig
    /\ Len(agg.agg_sig.value) = SignatureLength

\* every member of the committee signed the message m
AllSigned(m) == \A i \in 1..Len(agg.signers) : agg.signers[i][2] = m

\* one member signed a message other than m, which all the rest signed
OneSignedAnother(m) ==
    /\ Len(agg.signers) >= 2
    /\ \E j \in 1..Len(agg.signers) :
            /\ agg.signers[j][2] # m
            /\ \A i \in 1..Len(agg.signers) : i # j => agg.signers[i][2] = m

\* the aggregate public key is the identity: the secret scalars of the
\* committee add up to a multiple of the curve order
AggregateKeyIsIdentity == BytesToPoint(agg.agg_pk.value) = 0

\* C11 as stated: for every committee, when every member signed the same
\* message m, verify_aggregated on the two aggregates returns true for m and
\* false for any other message; when one member signed another message than
\* the rest, it returns false for the message of the rest.
AggregateVerifies ==
    bls.op = "verify_aggregated" =>
        /\ bls.ok
        /\ \A m \in Messages : AllSigned(m) => (bls.result <=> bls.message = m)
        /\ OneSignedAnother(bls.message) => ~bls.result

\* C11 amended: the same, for committees whose aggregate public key is not
\* the identity; one member signing another message is rejected for every
\* committee.
AggregateVerifiesUnlessIdentity ==
    bls.op = "verify_aggregated" =>
        /\ bls.ok
        /\ \A m \in Messages :
              AllSigned(m) /\ ~AggregateKeyIsIdentity => (bls.result <=> bls.message = m)
        /\ OneSignedAnother(bls.message) => ~bls.result

AggregateVerifiesUnlessIdentityWitness ==
    /\ bls.op = "verify_aggregated"
    /\ Len(agg.signers) = 3
    /\ AllSigned(bls.message) /\ bls.result
    /\ agg.signers[1][1] # agg.signers[2][1]

\* the positions (from 0) of the batch that fail verify_signature on their own
FailingPositions ==
    {i \in 0..(Len(bls.batch) - 1) : ~verify_signature(bls.batch[i + 1]).value}

\* C12: batch_verify of N signatures of which exactly the positions K fail on
\* their own reports total N, N - |K| valid, |K| invalid, and as
\* invalid_indices exactly the positions of K in ascending order; a failing
\* signature does not stop the ones after it from being checked.
BatchTally ==
    bls.op = "batch_verify" =>
        LET r == bls.results
            K == FailingPositions
        IN  /\ bls.ok
            /\ r.total_signatures = Len(bls.batch)
            /\ r.valid_signatures = Len(bls.batch) - Cardinality(K)
            /\ r.invalid_signatures = Cardinality(K)
            /\ Len(r.invalid_indices) = Cardinality(K)
            /\ {r.invalid_indices[j] : j \in 1..Len(r.invalid_indices)} = K
            /\ \A j \in 1..(Len(r.invalid_indices) - 1) :
                    r.invalid_indices[j] < r.invalid_indices[j + 1]

BatchTallyWitness ==
    /\ bls.op = "batch_verify"
    /\ Len(bls.batch) = 3
    /\ bls.results.invalid_indices = <<0, 2>>
    /\ bls.results.valid_signatures = 1
    /\ bls.batch[1] # NotASignature /\ bls.batch[1].signature = Sign(1, <<84>>)

\* some element of the list has not the length n
WrongLength(list, n) == \E i \in 1..Len(list) : Len(list[i]) # n

\* the call failed with the error named and returned no aggregate
FailedWith(answer, error) ==
    ~answer.ok /\ answer.error = error /\ answer.value = << >>

\* C13: aggregate_signatures and aggregate_public_keys fail with the
\* empty-input error on an empty list, and with the length error when an
\* element has not the canonical length (96, 48); no aggregate is returned.
AggregationInputErrors ==
    agg.state = "answered" =>
        /\ agg.signatures = << >> => FailedWith(agg.agg_sig, "ValueError: empty")
        /\ agg.public_keys = << >> => FailedWith(agg.agg_pk, "ValueError: empty")
        /\ WrongLength(agg.signatures, 96) => FailedWith(agg.agg_sig, "ValueError: length")
        /\ WrongLength(agg.public_keys, 48) => FailedWith(agg.agg_pk, "ValueError: length")

AggregationInputErrorsWitness ==
    /\ agg.state = "answered"
    /\ Len(agg.signatures) = 2
    /\ Len(agg.signatures[1]) = 96 /\ Len(agg.signatures[2]) = 97
    /\ agg.agg_sig.error = "ValueError: length"
    /\ agg.public_keys = << >> /\ agg.agg_pk.error = "ValueError: empty"

\* C14: VDF.verify, PoF.verify_solution, verify_signature and
\* verify_aggregated_signature return true or false on every input, malformed
\* ones included, and never end in an exception.
VerificationAlwaysBoolean ==
    /\ vdf.state = "verified" => vdf.result \in BOOLEAN
    /\ \A v \in Verifiers :
          ver[v].pc = "done" => /\ ver[v].exit \in {"vdf", "pow", "ok"}
                                /\ ver[v].result \in BOOLEAN
    /\ bls.op \in {"verify_signature", "verify_presented", "verify_aggregated"} =>
          bls.ok /\ bls.result \in BOOLEAN

\* C15: constructing a VDF with difficulty < 1 fails with ValueError and
\* yields no instance; every instance has difficulty >= 1, and its output and
\* proof are unset until compute() has run.
VdfConstruction ==
    /\ vdf.state # "none" => (vdf.state = "error" <=> vdf.asked_difficulty < 1)
    /\ vdf.state = "error" =>
          vdf.challenge = << >> /\ vdf.output = None /\ vdf.proof = None
    /\ vdf.state \in {"constructed", "computed", "verified"} =>
          vdf.difficulty >= 1 /\ vdf.difficulty = vdf.asked_difficulty
    /\ vdf.state = "constructed" => vdf.output = None /\ vdf.proof = None
    /\ vdf.state = "computed" => vdf.output # None /\ vdf.proof # None

VdfConstructionWitness ==
    /\ vdf.state = "error" /\ vdf.asked_difficulty = 0

RECURSIVE HashedTimes(_, _)
\* H applied d times to x, each application taking the result of the one before
HashedTimes(x, d) == IF d = 0 THEN x ELSE HashedTimes(sha256_hash(x), d - 1)

\* C17: compute() returns the challenge hashed exactly difficulty times in
\* sequence, and the returned output and proof are the same value.
ComputeIsIteratedHash ==
    vdf.state = "computed" =>
        /\ vdf.output = HashedTimes(vdf.challenge, vdf.difficulty)
        /\ vdf.proof = vdf.output

ComputeIsIteratedHashWitness ==
    /\ vdf.state = "computed" /\ vdf.difficulty = 2
    /\ vdf.output = sha256_hash(sha256_hash(vdf.challenge))

RECURSIVE PairUp(_)
\* the leaves of a level taken two at a time from the left, each pair hashed
\* as left || right, an odd last leaf paired with a copy of itself
PairUp(level) ==
    IF level = << >> THEN << >>
    ELSE IF Len(level) = 1 THEN <<sha256_hash(level[1] \o level[1])>>
    ELSE <<sha256_hash(level[1] \o level[2])>> \o PairUp(SubSeq(level, 3, Len(level)))

RECURSIVE ReferenceRoot(_)
\* the reference construction: the hash of the empty string for no leaf, the
\* hash of the leaf for one, else the same rule on the paired-up level
ReferenceRoot(leaves) ==
    IF Len(leaves) = 0 THEN sha256_hash(<< >>)
    ELSE IF Len(leaves) = 1 THEN sha256_hash(Head(leaves))
    ELSE ReferenceRoot(PairUp(leaves))

\* C16: for every list of leaf digests merkle_root, and MerkleTree on top of
\* it, gives the root of the reference construction.
RootIsReferenceRoot ==
    mk.state \in {"rooted", "permuted"} =>
        /\ mk.root = ReferenceRoot(mk.items)
        /\ mk.tree_root = ReferenceRoot(mk.items)

RootIsReferenceRootWitness ==
    /\ mk.state = "rooted" /\ Len(mk.items) = 3
    /\ mk.items[1] # mk.items[2] /\ mk.items[2] # mk.items[3]
    /\ mk.root = sha256_hash(sha256_hash(
                      sha256_hash(mk.items[1] \o mk.items[2])
                      \o sha256_hash(mk.items[3] \o mk.items[3])))

\* the Merkle root of the hashes of the transactions of t, in list order
CurrentRoot(t) ==
    ReferenceRoot([i \in 1..Len(t.transactions) |->
                      Transaction_get_hash(t.transactions[i])])

\* C18: after any add_transaction calls, get_header_hash first sets
\* merkle_root to the Merkle root of the hashes of the current transactions
\* in insertion order and hashes the header holding it; calculate_merkle_root
\* sets merkle_root alone, and called on a header whose root it has just set
\* (twice in a row) it leaves every field as it was.
RootReflectsTransactions ==
    /\ call.op \in {"get_header_hash", "calculate_merkle_root"} =>
          /\ triad.tx_merkle_root = CurrentRoot(triad)
          /\ [triad EXCEPT !.tx_merkle_root = call.before.tx_merkle_root] = call.before
    /\ call.op = "get_header_hash" =>
          /\ call.root = CurrentRoot(triad)
          /\ call.hash = sha256_hash(JsonDumps(Triad_to_dict(triad)))
    /\ (call.op = "calculate_merkle_root"
         /\ call.before.tx_merkle_root = CurrentRoot(call.before)) => triad = call.before

RootReflectsTransactionsWitness ==
    /\ call.op = "get_header_hash"
    /\ Len(triad.transactions) = 2
    /\ call.before.tx_merkle_root # << >>
    /\ call.before.tx_merkle_root # triad.tx_merkle_root

\* C19: the header hash depends on the canonical fields only: after a change
\* of the nonce alone (or of another canonical field alone) the hash differs,
\* after a change of aggregated_proof, committee_pub_key or child_hashes
\* alone it is the same.
HashOfCanonicalFields ==
    (call.op = "get_header_hash" /\ call.changed) =>
        /\ call.field \in CanonicalFields => call.hash # call.prev_hash
        /\ call.field \in OtherFields => call.hash = call.prev_hash

HashOfCanonicalFieldsWitness ==
    /\ call.op = "get_header_hash" /\ call.changed
    /\ call.field = "nonce" /\ triad.nonce = 10
    /\ Len(triad.transactions) = 1
    /\ call.hash # call.prev_hash

\* the scalar a serialised secret key stands for
SecretScalar(secret_key) == secret_key[Len(secret_key)]

\* C20: every secret scalar returned by generate_key_pair lies in
\* [1, curve_order) and the public key returned is derived from it; every
\* draw that reduces to zero or lies outside [1, curve_order) was discarded
\* and followed by another draw, so the last draw, the one the returned key
\* comes from, is none of these.
KeyGenerationResamples ==
    bls.op = "generate_key_pair" =>
        LET k == bls.keypair
            n == Len(bls.draws)
        IN  /\ Len(k.secret_key) = SecretKeyLength
            /\ SecretScalar(k.secret_key) \in 1..(CurveOrder - 1)
            /\ k.public_key = SkToPk(SecretScalar(k.secret_key))
            /\ \A i \in 1..n :
                  (bls.draws[i] % CurveOrder = 0
                   \/ bls.draws[i] \notin 1..(CurveOrder - 1)) => i < n

\* C21: after execute_transaction has returned, either the result is
\* "Commit" and every participant is committed and not aborted, or it is
\* "Abort" and every participant, also one whose prepare() had succeeded, is
\* aborted and none is committed; it is "Abort" exactly when the prepare()
\* of some participant fails.
TwoPhaseAtomic ==
    coordinator.state = "returned" =>
        LET ps == coordinator.participants
            all == 1..Len(ps)
        IN  /\ \/ /\ coordinator.result = "Commit"
                  /\ \A i \in all : ps[i].committed /\ ~ps[i].aborted
               \/ /\ coordinator.result = "Abort"
                  /\ \A i \in all : ps[i].aborted /\ ~ps[i].committed
            /\ coordinator.result = "Abort" <=> \E i \in all : ps[i].kind # "True"

TwoPhaseAtomicWitness ==
    /\ coordinator.state = "returned" /\ coordinator.result = "Abort"
    /\ Len(coordinator.participants) = 3
    /\ coordinator.participants[1].prepared /\ coordinator.participants[1].aborted
    /\ coordinator.participants[2].kind = "False"
    /\ ~coordinator.participants[3].prepared /\ coordinator.participants[3].aborted

\* the add_signed_block calls made for the validator, with a header of the
\* same height as the given one and another hash
Conflicting(validator_address, block_header) ==
    {k \in 1..Len(slashing.added) :
        /\ slashing.added[k][1] = validator_address
        /\ slashing.added[k][2].height = block_header.height
        /\ slashing.added[k][2].hash # block_header.hash}

\* C22: after any sequence of add_signed_block calls,
\* detect_double_signing(validator, header) returns true if and only if a
\* header recorded before for that validator has the same height and a
\* different hash (headers of other validators or heights never count), and
\* the call records nothing.
DoubleSigningDetected ==
    slashing.op = "detect_double_signing" =>
        /\ slashing.result <=>
              Conflicting(slashing.validator_address, slashing.block_header) # {}
        /\ slashing.signed_blocks = slashing.before

DoubleSigningDetectedWitness ==
    /\ slashing.op = "detect_double_signing" /\ slashing.result
    /\ Len(slashing.added) = 3
    /\ slashing.validator_address = "validator_1"
    /\ slashing.block_header = BlockHeader(1, "hash_2")
    /\ slashing.added[1] = <<"validator_2", BlockHeader(1, "hash_1")>>
    /\ slashing.added[2] = <<"validator_1", BlockHeader(2, "hash_1")>>
    /\ slashing.added[3] = <<"validator_1", BlockHeader(1, "hash_1")>>

\* C23: verify_solution returns true if and only if (a) VDF.verify accepts
\* (vdf_output, vdf_proof) for the header hash at nonce 0 as challenge and
\* the given vdf_difficulty, and (b) the hash of the header hash at the
\* header's own nonce followed by vdf_output, read as a big-endian unsigned
\* integer, is strictly below (2^256 - 1) >> header.difficulty.
VerifyIffBothChecks ==
    (ver[1].pc = "done" /\ ver[1].exit # "ValueError") =>
        LET challenge == Triad_get_header_hash([triad EXCEPT !.nonce = 0])
            header_hash == Triad_get_header_hash(triad)
            final_hash == sha256_hash(header_hash \o ver[1].vdf_output)
        IN  ver[1].result <=>
              /\ VDF_verify(challenge, ver[1].vdf_difficulty,
                            ver[1].vdf_output, ver[1].vdf_proof)
              /\ int_from_bytes(final_hash)
                    < (Pow2(HashBits) - 1) \div Pow2(triad.difficulty)

VerifyIffBothChecksWitness ==
    /\ ver[1].pc = "done" /\ ver[1].result
    /\ triad.nonce > 0 /\ triad.difficulty > 0
    /\ triad.nonce = ver[1].nonce_at_call

\* the header at nonce n meets the target with the puzzle's VDF output
BelowTarget(n) ==
    int_from_bytes(sha256_hash(Triad_get_header_hash([triad EXCEPT !.nonce = n])
                               \o puzzle.vdf_output))
        < (Pow2(HashBits) - 1) \div Pow2(triad.difficulty)

\* C24: solve_puzzle tests the nonces 0, 1, 2, ... in order and returns the
\* least nonce whose hash with vdf_output is strictly below
\* (2^256 - 1) >> header.difficulty, leaving header.nonce at it; it never
\* raises, and while no nonce tested meets the target it does not return.
SolveReturnsLeastNonce ==
    /\ puzzle.pc # "raised"
    /\ (puzzle.pc = "solved" /\ NoVerifierRunning) =>
          /\ triad.nonce = puzzle.solution
          /\ BelowTarget(puzzle.solution)
          /\ \A n \in 0..(puzzle.solution - 1) : ~BelowTarget(n)
    /\ puzzle.pc \in {"solving", "exhausted"} =>
          /\ puzzle.solution = -1
          /\ \A n \in 0..(puzzle.nonce - 1) : ~BelowTarget(n)
    /\ puzzle.pc = "exhausted" => ~BelowTarget(MaxNonce)

\* C25: the Merkle root binds the leaf list: two lists of leaf digests that
\* differ in length or in the digest at some position never have the same
\* root, in particular a list of odd length and the same list with its last
\* leaf appended once more.
RootBindsLeafList ==
    mk.state = "compared" => (mk.other # mk.items => mk.other_root # mk.root)

\* what the call of verifier v returns when it runs alone on the mined
\* header, whose nonce is the solution the miner found
ResultAlone(v) ==
    LET mined == [triad EXCEPT !.nonce = puzzle.solution]
        challenge == Triad_get_header_hash([triad EXCEPT !.nonce = 0])
        final_hash == sha256_hash(Triad_get_header_hash(mined) \o ver[v].vdf_output)
    IN  /\ VDF_verify(challenge, ver[v].vdf_difficulty, ver[v].vdf_output,
                      ver[v].vdf_proof)
        /\ int_from_bytes(final_hash) < (Pow2(HashBits) - 1) \div Pow2(triad.difficulty)

\* C26: when two verify_solution calls on the same header interleave at
\* statement granularity, each returns the result it returns when run
\* alone, and after both have finished header.nonce equals its value before
\* either call started.
ConcurrentVerifySafe ==
    /\ \A v \in Verifiers : ver[v].pc = "done" => ver[v].result = ResultAlone(v)
    /\ (\A v \in Verifiers : ver[v].pc = "done") => triad.nonce = puzzle.solution

\* C27: VDF.verify returns false for every difficulty below 1, so a
\* verify_solution call handed vdf_difficulty 0 (with the unhashed challenge
\* as vdf_output) never passes the VDF check and never returns true.
VerifyRejectsLowDifficulty ==
    \A v \in Verifiers :
        ver[v].vdf_difficulty < 1 =>
            /\ ver[v].pc # "l99"
            /\ ver[v].pc = "done" => ~ver[v].result

\* C28: a transaction whose validate_transaction call found a write-write
\* or read-write conflict with a committed transaction, and returned False,
\* is never committed: no later commit_transaction for it returns True, its
\* state never becomes COMMITTED, and its write set is never applied to
\* global_state.
ConflictedNeverCommits ==
    \A tx_id \in tm.conflicted :
        /\ tm.transactions[tx_id].state # "committed"
        /\ (tm.op = "commit_transaction" /\ tm.tx_id = tx_id) => ~tm.result
        /\ \A key \in DOMAIN tm.global_state :
              tm.global_state[key] # <<"modified_by", tx_id>>

\* C29: COMMITTED and ABORTED are terminal: under any sequence of
\* prepare_phase, commit_phase and abort_transaction calls on a transaction
\* id, once its status is COMMITTED or ABORTED the status never changes again.
TerminalStatusStays ==
    [][\A tx_id \in DOMAIN tpc.transactions :
          tpc.transactions[tx_id].status \in {"committed", "aborted"} =>
              tpc'.transactions[tx_id].status = tpc.transactions[tx_id].status]_vars

\* C30: a non_reentrant entry for an address whose block is executing raises
\* ReentrancyError and leaves the locks, the call stack and the executing
\* blocks as they were; an entry for any other address succeeds; and once a
\* block is left, by return or by exception, is_locked is false for its
\* address and a new entry for it succeeds
GuardBlocksAndUnlocks ==
    /\ guard.op = "non_reentrant" =>
          IF Executing(guard.before.frames, guard.contract_address)
          THEN /\ guard.outcome = "ReentrancyError"
               /\ guard.reentrancy_guard = guard.before.reentrancy_guard
               /\ guard.frames = guard.before.frames
          ELSE /\ guard.outcome = "entered"
               /\ guard.frames = Append(guard.before.frames, guard.contract_address)
               /\ is_locked(guard.reentrancy_guard.call_stack, guard.contract_address)
    /\ guard.op = "exit" =>
          /\ ~is_locked(guard.reentrancy_guard.call_stack, guard.contract_address)
          /\ non_reentrant_enter(guard.reentrancy_guard,
                                 guard.contract_address).outcome = "entered"

\* "0x123" was entered and left, and inside the block of "0x456" a second
\* entry for "0x456" has just been refused
GuardBlocksAndUnlocksWitness ==
    /\ guard.op = "non_reentrant"
    /\ guard.contract_address = "0x456"
    /\ guard.outcome = "ReentrancyError"
    /\ guard.frames = <<"0x456">>
    /\ DOMAIN guard.reentrancy_guard.locks = {"0x123", "0x456"}
    /\ ~is_locked(guard.reentrancy_guard.call_stack, "0x123")

====
